---------------------------- MODULE Spec2Model ----------------------------
(***************************************************************************)
(* MathSpeedTrainer (src/MathTrainer.py): the adaptive difficulty table,   *)
(* the question generator, the multiple-choice distractor generator, and   *)
(* the answer bookkeeping (statistics, retry queues, XP and level) of the  *)
(* game and practice sessions.                                             *)
(*                                                                         *)
(* Numbers that the program keeps as floats are kept exact here: a time or *)
(* an average is a rational, a multiple-choice option is a number of       *)
(* tenths.  Where the float result of the program can differ from the      *)
(* exact one (int(x * factor) in get_difficulty_params) the operator       *)
(* returns the set of results the float arithmetic can give.               *)
(***************************************************************************)
EXTENDS Integers, Sequences, FiniteSets, TLC

VARIABLES
    dp,     \* one evaluation of get_difficulty_params: its input and result
    gq,     \* one evaluation of generate_question: its frames and result
    mc,     \* one evaluation of generate_mc_options: its loops and result
    self_assessment_level,
    self,   \* the MathSpeedTrainer object of the running process: its
            \* attributes and the state of the widgets that gate its handlers
    user_data_file,  \* the JSON document in math_trainer_user_data.json
    obs     \* what the last handler did: the exception that escaped it, the
            \* queue insertions it refused, the handlers run so far

vars == <<dp, gq, mc, self_assessment_level, self, user_data_file, obs>>

-----------------------------------------------------------------------------
(* Bounds of the exploration *)

MaxLevel == 200          \* get_difficulty_params is explored for 1..MaxLevel
GenDrawWidth == 1        \* values explored at each end of a random.randint range
MaxRecursion == 3        \* nested generate_question calls before RecursionError
                         \* (the interpreter's recursion limit, scaled down)
MaxCalls == 4            \* handlers run in one behaviour of a session

-----------------------------------------------------------------------------
(* Small helpers *)

Max2(a, b) == IF a >= b THEN a ELSE b
Min2(a, b) == IF a <= b THEN a ELSE b
SetMin(S) == CHOOSE x \in S : \A y \in S : x <= y
SetMax(S) == CHOOSE x \in S : \A y \in S : x >= y

RECURSIVE Gcd(_, _)
Gcd(a, b) == IF b = 0 THEN a ELSE Gcd(b, a % b)

\* round(n / d) as Python rounds: to the nearest integer, a tie to the even one
RoundHalfEven(n, d) ==
    LET q == n \div d
        r == n % d
    IN  IF 2 * r < d THEN q
        ELSE IF 2 * r > d THEN q + 1
        ELSE IF q % 2 = 0 THEN q ELSE q + 1

Abs(x) == IF x < 0 THEN -x ELSE x

\* random.shuffle: every ordering of the list
Shuffles(list) ==
    LET n == Len(list)
    IN  { [i \in 1..n |-> list[f[i]]] :
            f \in {g \in [1..n -> 1..n] : \A i, j \in 1..n : g[i] = g[j] => i = j} }

RECURSIVE Pow(_, _)
Pow(b, e) == IF e = 0 THEN 1 ELSE b * Pow(b, e - 1)

Tiers == {"bad", "good", "nice", "perfect"}

\* the keys of self.operations, and the ones enabled by default
Ops == {"addition", "subtraction", "multiplication", "division",
        "powers", "roots", "percentages"}
DefaultOps == {"addition", "subtraction", "multiplication", "division"}

None == "None"

\* no evaluation of a function is in progress
Idle == [pc |-> "idle"]

-----------------------------------------------------------------------------
(* get_difficulty_params *)

\* a params dict without the "mult_range" key has mult_range = NoMult
NoMult == <<>>

\* the table with the first bracket's range starting at 0 instead of 1
difficulty_brackets_from_zero ==
    << [min_lvl |-> 1,  max_lvl |-> 5,   p |-> [range |-> <<0, 10>>,     digits |-> 1, mult_range |-> NoMult]],
       [min_lvl |-> 6,  max_lvl |-> 10,  p |-> [range |-> <<1, 50>>,     digits |-> 2, mult_range |-> NoMult]],
       [min_lvl |-> 11, max_lvl |-> 15,  p |-> [range |-> <<10, 100>>,   digits |-> 2, mult_range |-> NoMult]],
       [min_lvl |-> 16, max_lvl |-> 20,  p |-> [range |-> <<10, 200>>,   digits |-> 3, mult_range |-> <<2, 20>>]],
       [min_lvl |-> 21, max_lvl |-> 30,  p |-> [range |-> <<50, 500>>,   digits |-> 3, mult_range |-> <<2, 50>>]],
       [min_lvl |-> 31, max_lvl |-> 50,  p |-> [range |-> <<100, 1000>>, digits |-> 3, mult_range |-> <<10, 100>>]],
       [min_lvl |-> 51, max_lvl |-> 100, p |-> [range |-> <<100, 9999>>, digits |-> 4, mult_range |-> <<10, 200>>]] >>

difficulty_brackets ==
    << [min_lvl |-> 1,  max_lvl |-> 5,   p |-> [range |-> <<1, 10>>,     digits |-> 1, mult_range |-> NoMult]],
       [min_lvl |-> 6,  max_lvl |-> 10,  p |-> [range |-> <<1, 50>>,     digits |-> 2, mult_range |-> NoMult]],
       [min_lvl |-> 11, max_lvl |-> 15,  p |-> [range |-> <<10, 100>>,   digits |-> 2, mult_range |-> NoMult]],
       [min_lvl |-> 16, max_lvl |-> 20,  p |-> [range |-> <<10, 200>>,   digits |-> 3, mult_range |-> <<2, 20>>]],
       [min_lvl |-> 21, max_lvl |-> 30,  p |-> [range |-> <<50, 500>>,   digits |-> 3, mult_range |-> <<2, 50>>]],
       [min_lvl |-> 31, max_lvl |-> 50,  p |-> [range |-> <<100, 1000>>, digits |-> 3, mult_range |-> <<10, 100>>]],
       [min_lvl |-> 51, max_lvl |-> 100, p |-> [range |-> <<100, 9999>>, digits |-> 4, mult_range |-> <<10, 200>>]] >>

LastBracket == difficulty_brackets[Len(difficulty_brackets)]

\* params before any bracket matches (line 1833)
DefaultParams == [range |-> <<1, 10>>, digits |-> 1, mult_range |-> <<2, 10>>]

\* the for loop of lines 1834-1837: the first bracket that contains the level
BracketParams(level) ==
    LET hits == {i \in DOMAIN difficulty_brackets :
                    /\ difficulty_brackets[i].min_lvl <= level
                    /\ level <= difficulty_brackets[i].max_lvl}
    IN  IF hits = {} THEN DefaultParams ELSE difficulty_brackets[SetMin(hits)].p

\* nice ramps more slowly than good
base_scaling_divisor_nice_slow(tier) ==
    CASE tier = "bad"     -> 30
      [] tier = "nice"    -> 25
      [] tier = "perfect" -> 10
      [] OTHER            -> 20

\* lines 1843-1849
base_scaling_divisor(tier) ==
    CASE tier = "bad"     -> 30
      [] tier = "nice"    -> 15
      [] tier = "perfect" -> 10
      [] OTHER            -> 20

digit_scaling_divisor(tier) ==
    CASE tier = "bad"     -> 20
      [] tier = "perfect" -> 10
      [] OTHER            -> 15

\* int(x * factor) with factor = 1.0 + k / d computed in double precision.
\* The exact product is x*(d+k)/d.  When it is not an integer it lies at least
\* 1/d away from one and the float error cannot cross it.  When it is an
\* integer and the factor is not exactly representable (its reduced
\* denominator is not a power of two), the float product can fall just below
\* the integer, and int() then gives one less.
ScaledInt(x, k, d) ==
    LET num == x * (d + k)
        q   == num \div d
        red == d \div Gcd(d, d + k)
    IN  IF num % d = 0 /\ red \notin {1, 2, 4, 8, 16} THEN {q - 1, q} ELSE {q}

\* lines 1839-1863: the parameters beyond the last bracket
ScaledParams(level, tier) ==
    LET k  == level - LastBracket.max_lvl
        d  == base_scaling_divisor(tier)
        p  == LastBracket.p
    IN  { [range      |-> <<lo, hi>>,
           mult_range |-> <<mlo, mhi>>,
           digits     |-> Min2(p.digits + (k \div digit_scaling_divisor(tier)), 6)] :
             lo  \in ScaledInt(p.range[1], k, d),      hi  \in ScaledInt(p.range[2], k, d),
             mlo \in ScaledInt(p.mult_range[1], k, d), mhi \in ScaledInt(p.mult_range[2], k, d) }

\* lines 1866-1867 and 1868-1870: a range with low >= high is collapsed
RepairRange(r) ==
    IF r[1] >= r[2]
    THEN IF r[2] > 1 THEN <<Max2(1, r[2] - 1), r[2]>> ELSE <<1, 2>>
    ELSE r

RepairMultRange(r) ==
    IF r[1] >= r[2]
    THEN LET c == IF r[2] > 1 THEN <<Max2(1, r[2] - 1), r[2]>> ELSE <<1, 2>>
         IN  <<Max2(1, c[1]), c[2]>>
    ELSE r

RepairParams(p) ==
    [p EXCEPT !.range = RepairRange(p.range),
              !.mult_range = IF p.mult_range = NoMult THEN NoMult
                             ELSE RepairMultRange(p.mult_range)]

\* the set of results get_difficulty_params(level) can return for a tier
get_difficulty_params(level, tier) ==
    LET raw == IF level > LastBracket.max_lvl
               THEN ScaledParams(level, tier)
               ELSE {BracketParams(level)}
    IN  {RepairParams(p) : p \in raw}

-----------------------------------------------------------------------------
(* generate_question *)

\* random.randint(lo, hi), explored on the w lowest and w highest values
RandInt(lo, hi, w) == (lo .. Min2(hi, lo + w - 1)) \cup (Max2(lo, hi - w + 1) .. hi)

\* random.choice over a set of numbers, explored on its w lowest and w highest
RandChoice(S, w) ==
    {x \in S : Cardinality({y \in S : y < x}) < w \/ Cardinality({y \in S : y > x}) < w}

\* a raw_question: Python compares a tuple and a list as different even when
\* their elements agree, so the container type is part of the value
RawQ(a, b, sym) == [a |-> a, b |-> b, sym |-> sym, form |-> "tuple"]

Question(op_type, answer, n1, n2, raw_q) ==
    [op_type |-> op_type, answer |-> answer, num1 |-> n1, num2 |-> n2,
     raw_question |-> raw_q]

\* line 1879
ErrorQuestion == Question("error", 0, 0, 0, RawQ(0, 0, "error"))

Return(q) == [kind |-> "return", q |-> q]
Recurse(ops_choice) == {[kind |-> "recurse", chosen |-> c] : c \in ops_choice}

\* lines 1888-1893
GenAddition(p, w) ==
    { Return(Question("addition", n1 + n2, n1, n2, RawQ(n1, n2, "+"))) :
        n1 \in RandInt(p.range[1], p.range[2], w),
        n2 \in RandInt(p.range[1], p.range[2], w) }

\* lines 1894-1900 with n2 drawn from the whole range and never swapped
GenSubtraction_unordered(level, p, w) ==
    { Return(Question("subtraction", n1 - n2, n1, n2, RawQ(n1, n2, "-"))) :
        n1 \in RandInt(p.range[1], p.range[2], w),
        n2 \in RandInt(p.range[1], p.range[2], w) }

\* lines 1894-1900
GenSubtraction(level, p, w) ==
    UNION { { LET a == IF level < 10 /\ n1 < n2 THEN n2 ELSE n1
                  b == IF level < 10 /\ n1 < n2 THEN n1 ELSE n2
              IN  Return(Question("subtraction", a - b, a, b, RawQ(a, b, "-"))) :
                n2 \in RandInt(p.range[1], n1, w) } :
            n1 \in RandInt(p.range[1], p.range[2], w) }

\* lines 1901-1911
GenMultiplication(level, p, w) ==
    LET mr       == IF p.mult_range = NoMult THEN <<2, 10>> ELSE p.mult_range
        mult_min == Max2(1, mr[1])
        mult_max == Max2(mult_min + 1, mr[2])
        draws    == IF level <= 3 THEN RandInt(1, 5, w)
                    ELSE IF level <= 7 THEN RandInt(1, 10, w)
                    ELSE RandInt(mult_min, mult_max, w)
    IN  { Return(Question("multiplication", n1 * n2, n1, n2, RawQ(n1, n2, "*"))) :
            n1 \in draws, n2 \in draws }

\* lines 1912-1929: up to 100 independent attempts; the first one whose
\* dividend lies in the value range is returned, and when every attempt
\* misses (possible exactly when some draw misses) addition is generated
GenDivision(level, p, w) ==
    LET mr           == IF p.mult_range = NoMult THEN <<2, 12>> ELSE p.mult_range
        div_min      == IF level > 3 THEN 2 ELSE 1
        div_max      == Max2(div_min + 1, (mr[2] \div 2) + 1)
        quotient_max == Max2(2, mr[1])
        attempts     == RandInt(div_min, div_max, w) \X RandInt(1, quotient_max, w)
        hit(t)       == p.range[1] <= t[1] * t[2] /\ t[1] * t[2] <= p.range[2]
    IN  { Return(Question("division", t[2], t[1] * t[2], t[1],
                          RawQ(t[1] * t[2], t[1], "/"))) : t \in {u \in attempts : hit(u)} }
        \cup (IF \E t \in attempts : ~hit(t) THEN Recurse({"addition"}) ELSE {})

\* lines 1930-1943
GenPowers(level, w) ==
    LET base_max == Max2(2, IF level < 20 THEN 15 ELSE IF level < 30 THEN 10 ELSE 20)
        exp_max  == IF level < 25 THEN 3 ELSE IF level < 40 THEN 4 ELSE 3
    IN  UNION { IF Pow(n1, n2) > 10000 /\ level < 40
                THEN Recurse({"addition", "multiplication"})
                ELSE {Return(Question("powers", Pow(n1, n2), n1, n2, RawQ(n1, n2, "^")))} :
                  n1 \in RandInt(2, base_max, w), n2 \in RandInt(2, exp_max, w) }

\* the tuple holds the base in place of the radicand
GenRoots_base_stored(level, p, w) ==
    UNION { UNION { IF Pow(n1_ans, root_type) > p.range[2] * 2 /\ level < 40
                    THEN Recurse({"addition", "subtraction"})
                    ELSE {Return(Question("roots", n1_ans, 0, 0,
                                          RawQ(n1_ans, root_type, "root")))} :
                      n1_ans \in RandInt(2, IF root_type = 2 THEN 20 ELSE 10, w) } :
            root_type \in {2, 3} }

\* lines 1944-1954: n1 and n2 keep their initial 0 in this branch
GenRoots(level, p, w) ==
    UNION { UNION { IF Pow(n1_ans, root_type) > p.range[2] * 2 /\ level < 40
                    THEN Recurse({"addition", "subtraction"})
                    ELSE {Return(Question("roots", n1_ans, 0, 0,
                                          RawQ(Pow(n1_ans, root_type), root_type, "root")))} :
                      n1_ans \in RandInt(2, IF root_type = 2 THEN 20 ELSE 10, w) } :
            root_type \in {2, 3} }

\* lines 1955-1967
GenPercentages(level, w) ==
    LET base_num_options == {10, 20, 40, 50, 60, 80, 100, 120, 150, 200, 250, 300, 400, 500}
                            \cup (IF level > 25 THEN {600, 750, 800, 1000} ELSE {})
        percents == {Min2(m * c, 100) : m \in RandInt(1, 4, w),
                                          c \in RandChoice({5, 10, 20, 25}, w)}
    IN  UNION { IF (n1 * n2) % 100 = 0
                THEN {Return(Question("percentages", (n1 * n2) \div 100, n1, n2, RawQ(n1, n2, "%")))}
                ELSE Recurse({"addition", "multiplication"}) :
                  n1 \in percents, n2 \in RandChoice(base_num_options, w) }

\* the branches without the unlock floors of powers, roots and percentages
GenBranch_no_floor(op_type, level, p, w) ==
    CASE op_type = "addition"        -> GenAddition(p, w)
      [] op_type = "subtraction"     -> GenSubtraction(level, p, w)
      [] op_type = "multiplication"  -> GenMultiplication(level, p, w)
      [] op_type = "division"        -> GenDivision(level, p, w)
      [] op_type = "powers"          -> GenPowers(level, w)
      [] op_type = "roots"           -> GenRoots(level, p, w)
      [] op_type = "percentages"     -> GenPercentages(level, w)
      [] OTHER                       -> Recurse({"addition", "subtraction"})

\* lines 1886-1969: the branch taken for op_type
GenBranch(op_type, level, p, w) ==
    CASE op_type = "addition"                      -> GenAddition(p, w)
      [] op_type = "subtraction"                   -> GenSubtraction(level, p, w)
      [] op_type = "multiplication"                -> GenMultiplication(level, p, w)
      [] op_type = "division"                      -> GenDivision(level, p, w)
      [] op_type = "powers" /\ level >= 10         -> GenPowers(level, w)
      [] op_type = "roots" /\ level >= 15          -> GenRoots(level, p, w)
      [] op_type = "percentages" /\ level >= 8     -> GenPercentages(level, w)
      [] OTHER                                     -> Recurse({"addition", "subtraction"})

\* an activation that takes a requested operation without looking it up in the
\* enabled operations, and so reaches the empty check only for no request
GenFrame_request_unchecked(level, tier, operations, chosen_operation, w) ==
    IF operations = {} /\ chosen_operation = None
    THEN {Return(ErrorQuestion)}
    ELSE LET op_types == IF chosen_operation # None
                         THEN {chosen_operation} ELSE operations
         IN  UNION { GenBranch(op, level, p, w) :
                       op \in op_types, p \in get_difficulty_params(level, tier) }

\* lines 1873-1969: one activation of generate_question, up to its return or
\* its recursive call; operations is the set of enabled operations
GenFrame(level, tier, operations, chosen_operation, w) ==
    IF operations = {}
    THEN {Return(ErrorQuestion)}
    ELSE LET op_types == IF chosen_operation # None /\ chosen_operation \in operations
                         THEN {chosen_operation} ELSE operations
         IN  UNION { GenBranch(op, level, p, w) :
                       op \in op_types, p \in get_difficulty_params(level, tier) }

\* what a caller of generate_question gets when the recursion limit is hit
RecursionError == [op_type |-> "RecursionError"]

\* generate_question(level, chosen_operation): every question it can return,
\* and RecursionError when a chain of fallbacks can exhaust the stack
RECURSIVE generate_question(_, _, _, _, _, _)
generate_question(level, tier, operations, chosen_operation, depth, w) ==
    UNION { IF o.kind = "return" THEN {o.q}
            ELSE IF depth >= MaxRecursion THEN {RecursionError}
            ELSE generate_question(level, tier, operations, o.chosen, depth + 1, w) :
              o \in GenFrame(level, tier, operations, chosen_operation, w) }

-----------------------------------------------------------------------------
(* Specification SpecGen: generate_question, one activation per step *)

\* enabled sets explored: none, every single operation, every pair, the
\* default four and all seven
GenOpSets == {S \in SUBSET Ops : Cardinality(S) <= 2} \cup {DefaultOps, Ops}

\* levels explored: both sides of every level threshold of generate_question
\* (3, 7, 8, 10, 15, 20, 25, 30, 40) and one level of every bracket, the last
\* one beyond the table
GenLevels == {1, 3, 4, 7, 8, 9, 10, 14, 15, 16, 19, 20, 24, 25, 29, 30, 31, 39, 40, 51, 101}

InitGen ==
    /\ self = Idle
    /\ user_data_file = Idle
    /\ obs = Idle
    /\ self_assessment_level = "good"
    /\ dp = Idle
    /\ mc = Idle
    /\ gq \in {[pc |-> "call", level |-> l, operations |-> S, requested |-> c,
                chosen |-> c, depth |-> 0, division_abandoned |-> FALSE] :
                 l \in GenLevels, S \in GenOpSets, c \in Ops \cup {None}}

\* the activation returns a question
GenReturn ==
    /\ gq.pc = "call"
    /\ \E o \in GenFrame(gq.level, self_assessment_level, gq.operations, gq.chosen, GenDrawWidth) :
          /\ o.kind = "return"
          /\ gq' = [gq EXCEPT !.pc = "returned"] @@ [q |-> o.q]
    /\ UNCHANGED <<dp, mc, self_assessment_level, self, user_data_file, obs>>

\* lines 1881-1884: the operations op_type can be in an activation
FrameOps(operations, chosen_operation) ==
    IF chosen_operation # None /\ chosen_operation \in operations
    THEN {chosen_operation} ELSE operations

\* the activation calls generate_question again with a fallback operation;
\* division_abandoned records that the 100 attempts of line 1913 all missed
GenRecurse ==
    /\ gq.pc = "call"
    /\ gq.depth < MaxRecursion
    /\ \E op \in FrameOps(gq.operations, gq.chosen),
          p \in get_difficulty_params(gq.level, self_assessment_level) :
       \E o \in GenBranch(op, gq.level, p, GenDrawWidth) :
          /\ o.kind = "recurse"
          /\ gq' = [gq EXCEPT !.chosen = o.chosen, !.depth = @ + 1,
                              !.division_abandoned = @ \/ (op = "division")]
    /\ UNCHANGED <<dp, mc, self_assessment_level, self, user_data_file, obs>>

\* the recursive call does not fit on the stack
GenOverflow ==
    /\ gq.pc = "call"
    /\ gq.depth >= MaxRecursion
    /\ \E o \in GenFrame(gq.level, self_assessment_level, gq.operations, gq.chosen, GenDrawWidth) :
          o.kind = "recurse"
    /\ gq' = [gq EXCEPT !.pc = "raised"]
    /\ UNCHANGED <<dp, mc, self_assessment_level, self, user_data_file, obs>>

NextGen == GenReturn \/ GenRecurse \/ GenOverflow

SpecGen == InitGen /\ [][NextGen]_vars

-----------------------------------------------------------------------------
(* generate_mc_options.  An option is a number of tenths: the program builds
   options that are integers or, through round(distractor, 1), numbers with
   one decimal. *)

Tenths(n) == 10 * n

\* lines 1983-1986: the variations the first loop can work with
Variations(correct_answer, p) ==
    LET v1 == Max2(1, correct_answer \div 10)
        v2 == Min2(v1, p.range[2] \div 10)
    IN  IF v2 = 0 /\ correct_answer # 0 THEN {1}
        ELSE IF v2 = 0 /\ correct_answer = 0 THEN 1..5
        ELSE {v2}

\* lines 1990-2000: the distractor for offset_type (in tenths) and the drawn k
OffsetDistractor(correct_answer, offset_type, k) ==
    LET offset_val == k * offset_type
    IN  IF Abs(offset_val) < 10
        THEN Tenths(correct_answer) + offset_val
        ELSE Tenths(correct_answer + RoundHalfEven(offset_val, 10))

\* lines 1988-2004: the distractors one pass of the first loop can build
FirstLoopDistractors(correct_answer, level, variation, w) ==
    { OffsetDistractor(correct_answer, t, k) :
        t \in {-10, 10, -20, 20, -5, 5, -1, 1},
        k \in RandInt(1, variation + (level \div 5), w) }

\* lines 2007-2017: the distractors one pass of the second loop can build
AdditionalDistractors(correct_answer, w) ==
    LET base == IF correct_answer # 0 THEN correct_answer ELSE 1
    IN  {Tenths(base + v) : v \in RandInt(1, 5, w)}
        \cup {Tenths(base - v) : v \in RandInt(1, 5, w)}
        \cup {Tenths(base * 2), Tenths(base * 3), Tenths(RoundHalfEven(base, 2))}

\* lines 2002-2003 and 2019-2020: a negative distractor is dropped unless the
\* correct answer is negative
Admit(options, distractor, correct_answer) ==
    IF distractor >= 0 \/ correct_answer < 0 THEN options \cup {distractor} ELSE options

\* lines 1975-1981: the options built for correct_answer = 1, the first
\* distinct distractors of the shuffled list until four options exist
OptionsForOne(correct_answer) ==
    LET lists == { {0, 2, 3, correct_answer * 2, correct_answer + r}
                     \cup (IF correct_answer * 10 <= 20 THEN {correct_answer * 10} ELSE {}) :
                   r \in 1..3 }
    IN  UNION { { {Tenths(correct_answer)} \cup {Tenths(d) : d \in S} :
                    S \in {T \in SUBSET D : Cardinality(T) = Min2(3, Cardinality(D \ {correct_answer}))
                                            /\ correct_answer \notin T} } :
                D \in lists }

\* list(options): the order of a set's elements, here ascending; the later
\* shuffle makes the order immaterial
RECURSIVE SetToList(_)
SetToList(S) == IF S = {} THEN <<>> ELSE <<SetMin(S)>> \o SetToList(S \ {SetMin(S)})

InList(x, list) == \E i \in DOMAIN list : list[i] = x

\* list(dict.fromkeys(list)): the first occurrence of every value
RECURSIVE Dedup(_)
Dedup(list) ==
    IF list = <<>> THEN <<>>
    ELSE LET front == Dedup(SubSeq(list, 1, Len(list) - 1))
             last  == list[Len(list)]
         IN  IF InList(last, front) THEN front ELSE Append(front, last)

\* the loop of lines 2033-2044 with the membership tests left out
RECURSIVE FillLoop_no_membership_test(_, _, _, _)
FillLoop_no_membership_test(final_options, correct_answer, idx, safety_break) ==
    IF ~(Len(final_options) < 4 /\ safety_break < 20) THEN final_options
    ELSE LET plus  == Tenths(correct_answer + idx)
             minus == Tenths(correct_answer - idx)
             f1 == IF plus >= 0 \/ correct_answer < 0
                   THEN Append(final_options, plus) ELSE final_options
         IN  IF Len(f1) = 4 THEN f1
             ELSE LET f2 == IF minus >= 0 \/ correct_answer < 0
                            THEN Append(f1, minus) ELSE f1
                  IN  FillLoop_no_membership_test(f2, correct_answer, idx + 1, safety_break + 1)

\* lines 2031-2044
RECURSIVE FillLoop(_, _, _, _)
FillLoop(final_options, correct_answer, idx, safety_break) ==
    IF ~(Len(final_options) < 4 /\ safety_break < 20) THEN final_options
    ELSE LET plus  == Tenths(correct_answer + idx)
             minus == Tenths(correct_answer - idx)
             f1 == IF ~InList(plus, final_options) /\ (plus >= 0 \/ correct_answer < 0)
                   THEN Append(final_options, plus) ELSE final_options
         IN  IF Len(f1) = 4 THEN f1
             ELSE LET f2 == IF ~InList(minus, f1) /\ (minus >= 0 \/ correct_answer < 0)
                            THEN Append(f1, minus) ELSE f1
                  IN  FillLoop(f2, correct_answer, idx + 1, safety_break + 1)

ListMax(list) == SetMax({list[i] : i \in DOMAIN list})

\* lines 2046-2049: the lists the last-resort loop can end with
RECURSIVE LastResort(_, _)
LastResort(final_options, last_resort_val) ==
    IF Len(final_options) >= 4 THEN {final_options}
    ELSE UNION { LastResort(Dedup(Append(final_options, last_resort_val + Tenths(r))), last_resort_val) :
                 r \in 1..5 }

\* lines 2023-2052: from the option set to the returned list
FinalOptions(options, correct_answer) ==
    LET l0 == SetToList(options)
        l1 == IF ~InList(Tenths(correct_answer), l0)
              THEN { Append(IF Len(l0) >= 4
                            THEN SubSeq(l0, 1, i - 1) \o SubSeq(l0, i + 1, Len(l0))
                            ELSE l0, Tenths(correct_answer)) :
                       i \in IF Len(l0) >= 4 THEN DOMAIN l0 ELSE {1} }
              ELSE {l0}
    IN  UNION { LET filled == FillLoop(Dedup(l), correct_answer, 1, 0)
                    lrv    == (IF filled # <<>> THEN ListMax(filled) ELSE Tenths(correct_answer))
                              + Tenths(10)
                IN  UNION { {SubSeq(sh, 1, Min2(4, Len(sh))) : sh \in Shuffles(fin)} :
                            fin \in LastResort(filled, lrv) } :
                l \in l1 }

-----------------------------------------------------------------------------
(* Specification SpecMC: generate_mc_options, one loop pass per step *)

\* (correct_answer, level) pairs explored: the answers 0 and 1, small answers
\* at low levels, and answers whose variation exceeds 1 at higher levels
McInputs == { <<0, 1>>, <<1, 1>>, <<2, 1>>, <<7, 4>>, <<1, 10>>, <<30, 10>>, <<100, 25>> }

InitMC ==
    /\ self = Idle
    /\ user_data_file = Idle
    /\ obs = Idle
    /\ self_assessment_level \in Tiers
    /\ dp = Idle
    /\ gq = Idle
    /\ mc \in { [pc |-> "call", correct_answer |-> i[1], level |-> i[2],
                 options |-> {Tenths(i[1])}, variation |-> 0, attempts |-> 0] : i \in McInputs }

\* lines 1975-1981: the branch for correct_answer = 1
McOptionsForOne ==
    /\ mc.pc = "call"
    /\ mc.correct_answer = 1
    /\ \E o \in OptionsForOne(mc.correct_answer) :
          mc' = [mc EXCEPT !.pc = "additional", !.options = o]
    /\ UNCHANGED <<dp, gq, self_assessment_level, self, user_data_file, obs>>

\* lines 1982-1988: the other branch fixes the variation
McVariation ==
    /\ mc.pc = "call"
    /\ mc.correct_answer # 1
    /\ \E p \in get_difficulty_params(mc.level, self_assessment_level) :
       \E v \in Variations(mc.correct_answer, p) :
          mc' = [mc EXCEPT !.pc = "first", !.variation = v]
    /\ UNCHANGED <<dp, gq, self_assessment_level, self, user_data_file, obs>>

\* lines 1989-2004: one pass of the first loop, or its exit
McFirstLoop ==
    /\ mc.pc = "first"
    /\ IF Cardinality(mc.options) < 4 /\ mc.attempts < 20
       THEN \E d \in FirstLoopDistractors(mc.correct_answer, mc.level, mc.variation, GenDrawWidth) :
               mc' = [mc EXCEPT !.options = Admit(@, d, mc.correct_answer),
                                !.attempts = @ + 1]
       ELSE mc' = [mc EXCEPT !.pc = "additional", !.attempts = 0]
    /\ UNCHANGED <<dp, gq, self_assessment_level, self, user_data_file, obs>>

\* lines 2006-2021: one pass of the second loop, or its exit
McAdditionalLoop ==
    /\ mc.pc = "additional"
    /\ IF Cardinality(mc.options) < 4 /\ mc.attempts < 20
       THEN \E d \in AdditionalDistractors(mc.correct_answer, GenDrawWidth) :
               mc' = [mc EXCEPT !.options = Admit(@, d, mc.correct_answer),
                                !.attempts = @ + 1]
       ELSE mc' = [mc EXCEPT !.pc = "finalize", !.attempts = 0]
    /\ UNCHANGED <<dp, gq, self_assessment_level, self, user_data_file, obs>>

\* lines 2023-2052: the list is completed, shuffled and returned
McFinalize ==
    /\ mc.pc = "finalize"
    /\ \E r \in FinalOptions(mc.options, mc.correct_answer) :
          mc' = [mc EXCEPT !.pc = "done"] @@ [result |-> r]
    /\ UNCHANGED <<dp, gq, self_assessment_level, self, user_data_file, obs>>

NextMC == McOptionsForOne \/ McVariation \/ McFirstLoop \/ McAdditionalLoop \/ McFinalize

SpecMC == InitMC /\ [][NextMC]_vars

-----------------------------------------------------------------------------
(* Specification SpecDiff: get_difficulty_params over levels and tiers *)

InitDiff ==
    /\ self = Idle
    /\ user_data_file = Idle
    /\ obs = Idle
    /\ self_assessment_level \in Tiers
    /\ gq = Idle
    /\ mc = Idle
    /\ dp \in {[pc |-> "call", level |-> l] : l \in 1..MaxLevel}

\* one call of get_difficulty_params
DiffCall ==
    /\ dp.pc = "call"
    /\ \E p \in get_difficulty_params(dp.level, self_assessment_level) :
          dp' = [pc |-> "done", level |-> dp.level, params |-> p]
    /\ UNCHANGED <<gq, mc, self_assessment_level, self, user_data_file, obs>>

NextDiff == DiffCall

SpecDiff == InitDiff /\ [][NextDiff]_vars

-----------------------------------------------------------------------------
(* The trainer object, its data file and its handlers.  A handler is an
   operator from a world (the object, the file, the observations) to the set
   of worlds it can end in; the set has more than one element where the
   handler draws at random.  A world whose obs.raised is not None is one in
   which an exception escaped: the rest of the handler did not run, and Tk
   reports the exception and carries on. *)

\* seconds between a question and its answer: a quick answer and a slow one
Times == {1, 10}

\* what a user saves in Settings: the enabled operations and the answer mode
SettingsSaved == {<<{}, "text">>, <<DefaultOps, "text">>, <<DefaultOps, "mc">>}

\* the keys the defaultdicts of a session can get
SessionKeys == Ops \cup {"error"}

\* the curve starts to rise one level late
calculate_xp_for_level_flat_start(level) ==
    IF level <= 2 THEN 100 ELSE (100 * Pow(3, level - 1)) \div Pow(2, level - 1)

\* lines 474-476
calculate_xp_for_level(level) ==
    IF level <= 1 THEN 100 ELSE (100 * Pow(3, level - 1)) \div Pow(2, level - 1)

\* lines 143-146; avg_time is kept as time_sum / total_answered_for_avg
NewStats == [correct |-> 0, incorrect |-> 0, time_sum |-> 0, total_answered_for_avg |-> 0]

\* current_question_details before the first question (None, line 109)
NoQuestion == [text |-> None]

\* no math_trainer_user_data.json exists (line 529)
NoFile == [exists |-> FALSE]

\* lines 105-176 and the widgets as the setup_*_frame methods leave them
Constructed ==
    [ game_active |-> FALSE, practice_active |-> FALSE,
      current_question_details |-> NoQuestion, question_start_time |-> None,
      questions_answered |-> 0, correct_answers |-> 0,
      session_operation_times |-> [k \in SessionKeys |-> <<>>],
      session_operation_correct |-> [k \in SessionKeys |-> 0],
      session_operation_incorrect |-> [k \in SessionKeys |-> 0],
      persistently_wrong_questions |-> <<>>,
      persistently_slow_questions |-> <<>>,
      current_practice_type |-> None,
      current_practice_list |-> <<>>,
      current_practice_op_for_session |-> None,
      current_practice_op |-> None,
      current_level |-> 1, current_xp |-> 0,
      xp_needed |-> calculate_xp_for_level(2),
      session_history |-> <<>>,
      operations |-> DefaultOps,
      answer_mode |-> "text",
      operation_stats |-> [op \in Ops |-> NewStats],
      practice_questions_total |-> 0,
      practice_questions_answered |-> 0,
      practice_correct_answers |-> 0,
      \* widgets: a button is TRUE when it can be pressed, a frame or a packed
      \* widget when it is shown, option_value when the buttons carry one
      start_button |-> TRUE, stop_button |-> FALSE,
      mc_buttons |-> TRUE, mc_option_value |-> FALSE,
      options_main_frame_practice |-> TRUE, practice_area |-> FALSE,
      practice_answer_entry |-> TRUE, practice_submit_button |-> FALSE,
      practice_mc_buttons |-> TRUE, practice_mc_option_value |-> FALSE,
      practice_feedback_label |-> FALSE,
      next_practice_q_button |-> FALSE, stop_practice_button |-> FALSE ]

NoObs == [calls |-> 0, raised |-> None, rejected |-> {}, no_ops_generation |-> FALSE,
          presented |-> 0, completed |-> FALSE, generated |-> FALSE,
          answers |-> 0, answers_correct |-> 0, ignored |-> FALSE]

\* a handler starts: what the previous one left in obs is forgotten, but for
\* the number of calls and the answers processed since the last start_game
Begin(s, f, o) ==
    [self |-> s, file |-> f,
     obs |-> [NoObs EXCEPT !.calls = o.calls, !.answers = o.answers,
                           !.answers_correct = o.answers_correct]]

Raise(w, exception) == [w EXCEPT !.obs.raised = exception]

\* g runs on every world of W that no exception escaped
Then(W, g(_)) == UNION { IF w.obs.raised # None THEN {w} ELSE g(w) : w \in W }

\* json.dump writes a tuple as an array, json.load reads an array as a list
AsJson(raw_q) == [raw_q EXCEPT !.form = "list"]

JsonEntries(queue) == [i \in DOMAIN queue |-> [queue[i] EXCEPT !.raw_q = AsJson(@)]]

\* lines 558-575: the document json.dump writes
UserData(s, tier) ==
    [ level |-> s.current_level,
      xp |-> s.current_xp,
      xp_needed |-> s.xp_needed,
      operations |-> s.operations,
      answer_mode |-> s.answer_mode,
      operation_stats |-> s.operation_stats,
      session_history |-> s.session_history,
      persistently_wrong_questions |-> JsonEntries(s.persistently_wrong_questions),
      persistently_slow_questions |-> JsonEntries(s.persistently_slow_questions),
      self_assessment_level |-> tier ]

\* lines 557-577
save_user_data(w) == [w EXCEPT !.file = UserData(w.self, self_assessment_level)]

\* lines 528-555
load_user_data(s, file) ==
    IF file = NoFile
    THEN [s EXCEPT !.xp_needed = calculate_xp_for_level(s.current_level + 1)]
    ELSE [s EXCEPT !.current_level = file.level,
                   !.current_xp = file.xp,
                   !.xp_needed = file.xp_needed,
                   !.operations = file.operations,
                   !.answer_mode = file.answer_mode,
                   !.persistently_wrong_questions = file.persistently_wrong_questions,
                   !.persistently_slow_questions = file.persistently_slow_questions,
                   !.operation_stats = file.operation_stats,
                   !.session_history = file.session_history]

-----------------------------------------------------------------------------
(* process_answer_result and what it calls *)

WrongCap == 30      \* line 2255
SlowCap == 20       \* line 2233
SlowBaseline == 5   \* line 2221

\* item['raw_q'] == raw_question_tuple and item['op_type'] == op_type; a list
\* read from the file is not equal to a tuple with the same elements
SameQuestion(item, raw_q, op_type) == item.raw_q = raw_q /\ item.op_type = op_type

InQueue(queue, raw_q, op_type) ==
    \E i \in DOMAIN queue : SameQuestion(queue[i], raw_q, op_type)

\* x > y between floats whose exact values are x and y: a tie can fall either way
FloatGt(x, y) == IF x = y THEN BOOLEAN ELSE {x > y}

\* lines 2222-2225 with avg_op_time = time_sum / total_answered_for_avg
is_significantly_slow(time_taken, stats) ==
    LET n   == stats.total_answered_for_avg
        sum == stats.time_sum
    IN  { a \/ (b /\ c) : a \in FloatGt(4 * time_taken * n, 7 * sum),
                          b \in FloatGt(time_taken * n, sum + 4 * n),
                          c \in FloatGt(sum, 2 * n) }

\* int(xp_gained * 0.7), which is one below the exact floor for 90, 170 and 180
SeventyPercent(x) == IF x \in {90, 170, 180} THEN (7 * x) \div 10 - 1 ELSE (7 * x) \div 10

\* lines 2201-2205
xp_gained(time_taken, level, answer_mode) ==
    LET base == 10 + (IF time_taken < 3 THEN 5 ELSE IF time_taken < 5 THEN 2 ELSE 0)
                   + (level \div 5)
    IN  IF answer_mode = "mc" THEN SeventyPercent(base) ELSE base

\* lines 2229-2240
InsertSlow(w, time_taken) ==
    LET q     == w.self.current_question_details
        stats == w.self.operation_stats[q.op_type]
        queue == w.self.persistently_slow_questions
    IN  IF InQueue(queue, q.raw_question, q.op_type) THEN w
        ELSE IF Len(queue) < SlowCap
        THEN [w EXCEPT !.self.persistently_slow_questions =
                Append(@, [raw_q |-> q.raw_question, answer |-> q.answer,
                           op_type |-> q.op_type, original_time |-> time_taken,
                           avg_at_detection |->
                               RoundHalfEven(100 * stats.time_sum,
                                             stats.total_answered_for_avg)])]
        ELSE [w EXCEPT !.obs.rejected = @ \cup {"slow"}]

\* lines 2251-2260 without the test of the length
InsertWrong_unbounded(w) ==
    LET q     == w.self.current_question_details
        queue == w.self.persistently_wrong_questions
    IN  IF InQueue(queue, q.raw_question, q.op_type) THEN w
        ELSE [w EXCEPT !.self.persistently_wrong_questions =
                Append(@, [raw_q |-> q.raw_question, answer |-> q.answer,
                           op_type |-> q.op_type])]

\* lines 2251-2260
InsertWrong(w) ==
    LET q     == w.self.current_question_details
        queue == w.self.persistently_wrong_questions
    IN  IF InQueue(queue, q.raw_question, q.op_type) THEN w
        ELSE IF Len(queue) < WrongCap
        THEN [w EXCEPT !.self.persistently_wrong_questions =
                Append(@, [raw_q |-> q.raw_question, answer |-> q.answer,
                           op_type |-> q.op_type])]
        ELSE [w EXCEPT !.obs.rejected = @ \cup {"wrong"}]

\* the XP is added whether a game runs or not
ScoreCorrect_xp_in_practice(w, time_taken) ==
    LET s       == w.self
        op_type == s.current_question_details.op_type
        w1 == [w EXCEPT !.self.correct_answers = @ + 1,
                        !.self.session_operation_correct[op_type] = @ + 1,
                        !.self.current_xp =
                            @ + xp_gained(time_taken, s.current_level, s.answer_mode)]
    IN  IF op_type \notin DOMAIN s.operation_stats
        THEN {Raise(w1, "KeyError")}
        ELSE LET w2 == [w1 EXCEPT !.self.operation_stats[op_type].correct = @ + 1]
                 stats == s.operation_stats[op_type]
             IN  IF stats.total_answered_for_avg > SlowBaseline
                 THEN { IF slow THEN InsertSlow(w2, time_taken) ELSE w2 :
                          slow \in is_significantly_slow(time_taken, stats) }
                 ELSE {w2}

\* lines 2196-2240: the branch of a correct answer
ScoreCorrect(w, time_taken) ==
    LET s       == w.self
        op_type == s.current_question_details.op_type
        w1 == [w EXCEPT !.self.correct_answers = @ + 1,
                        !.self.session_operation_correct[op_type] = @ + 1,
                        !.self.current_xp =
                            IF s.game_active
                            THEN @ + xp_gained(time_taken, s.current_level, s.answer_mode)
                            ELSE @]
    IN  IF op_type \notin DOMAIN s.operation_stats
        THEN {Raise(w1, "KeyError")}                                \* line 2210
        ELSE LET w2 == [w1 EXCEPT !.self.operation_stats[op_type].correct = @ + 1]
                 stats == s.operation_stats[op_type]
             IN  IF stats.total_answered_for_avg > SlowBaseline
                 THEN { IF slow THEN InsertSlow(w2, time_taken) ELSE w2 :
                          slow \in is_significantly_slow(time_taken, stats) }
                 ELSE {w2}

\* lines 2244-2260: the branch of an incorrect answer
ScoreIncorrect(w) ==
    LET s       == w.self
        op_type == s.current_question_details.op_type
        w1 == [w EXCEPT !.self.session_operation_incorrect[op_type] = @ + 1]
    IN  IF op_type \notin DOMAIN s.operation_stats
        THEN {Raise(w1, "KeyError")}                                \* line 2247
        ELSE {InsertWrong([w1 EXCEPT !.self.operation_stats[op_type].incorrect = @ + 1])}

\* lines 2265-2270
UpdateAverage(w, time_taken) ==
    LET op_type == w.self.current_question_details.op_type
    IN  [w EXCEPT !.self.operation_stats[op_type].time_sum = @ + time_taken,
                  !.self.operation_stats[op_type].total_answered_for_avg = @ + 1]

\* lines 2191-2270
ScoreAnswer(w, is_correct, time_taken) ==
    LET s       == w.self
        op_type == s.current_question_details.op_type
        w1 == [w EXCEPT !.self.questions_answered = @ + 1,
                        !.self.session_operation_times[op_type] = Append(@, time_taken)]
    IN  IF ~(s.game_active \/ s.practice_active) THEN {w}
        ELSE Then(IF is_correct THEN ScoreCorrect(w1, time_taken) ELSE ScoreIncorrect(w1),
                  LAMBDA x : {UpdateAverage(x, time_taken)})

RECURSIVE update_xp_and_level(_)

\* at most one level is gained in a call
update_xp_and_level_once(w) ==
    IF w.self.current_xp >= w.self.xp_needed
    THEN [w EXCEPT !.self.current_xp = @ - w.self.xp_needed,
                   !.self.current_level = @ + 1,
                   !.self.xp_needed = calculate_xp_for_level(w.self.current_level + 2)]
    ELSE w

\* lines 2326-2336
update_xp_and_level(w) ==
    IF w.self.current_xp >= w.self.xp_needed
    THEN update_xp_and_level(
            [w EXCEPT !.self.current_xp = @ - w.self.xp_needed,
                      !.self.current_level = @ + 1,
                      !.self.xp_needed = calculate_xp_for_level(w.self.current_level + 2)])
    ELSE w

\* the operations in the order of the dict of lines 135-138
OpOrder == <<"addition", "subtraction", "multiplication", "division",
             "powers", "roots", "percentages">>

FirstOp(S) == OpOrder[SetMin({i \in DOMAIN OpOrder : OpOrder[i] \in S})]

\* the draws followed in a session: random.choice takes the first of the
\* enabled operations, and the two operands differ where the ranges allow it
Drawn(questions, operations, chosen_operation) ==
    LET asked == { g \in questions :
                     /\ g.op_type \in operations
                     /\ g.op_type \in {chosen_operation, FirstOp(operations)} }
        apart == { g \in asked : g.num1 # g.num2 }
    IN  { g \in questions : g.op_type \notin operations }
        \cup (IF apart # {} THEN apart ELSE asked)

\* a call of generate_question from a handler: the questions it can return,
\* each random.randint taken at an end of its range
Generated(w, chosen_operation) ==
    { [q |-> q,
       w |-> [w EXCEPT !.obs.no_ops_generation = @ \/ (w.self.operations = {})]] :
      q \in Drawn(generate_question(w.self.current_level, self_assessment_level,
                                    w.self.operations, chosen_operation, 0, 1),
                  w.self.operations, chosen_operation) }

\* lines 2141-2155
next_question(w) ==
    IF ~w.self.game_active THEN {w}
    ELSE { IF g.q.op_type = "RecursionError" THEN Raise(g.w, "RecursionError")
           ELSE [g.w EXCEPT !.self.current_question_details = g.q,
                            !.self.question_start_time = "set",
                            !.self.mc_buttons = IF w.self.answer_mode = "mc" THEN TRUE ELSE @,
                            !.self.mc_option_value =
                                IF w.self.answer_mode = "mc" THEN TRUE ELSE @] :
           g \in Generated(w, None) }

\* lines 2277-2323 with the mistakes list filtered after any answer
PracticeFeedback_any_answer(w, is_correct) ==
    LET s  == w.self
        q  == s.current_question_details
        keep(e) == ~SameQuestion(e, q.raw_question, q.op_type)
        w1 == [w EXCEPT !.self.practice_questions_answered = @ + 1,
                        !.self.practice_correct_answers = IF is_correct THEN @ + 1 ELSE @,
                        !.self.practice_feedback_label = TRUE]
        w2 == IF s.current_practice_type = "wrong_ones"
              THEN save_user_data([w1 EXCEPT !.self.persistently_wrong_questions =
                                                 SelectSeq(@, keep)])
              ELSE IF s.current_practice_type = "slow_ones"
              THEN save_user_data([w1 EXCEPT !.self.persistently_slow_questions =
                                                 SelectSeq(@, keep)])
              ELSE w1
        w3 == IF s.answer_mode = "text"
              THEN [w2 EXCEPT !.self.practice_answer_entry = FALSE,
                              !.self.practice_submit_button = FALSE]
              ELSE [w2 EXCEPT !.self.practice_mc_buttons = FALSE]
    IN  [w3 EXCEPT !.self.next_practice_q_button = TRUE]

\* lines 2277-2323: the practice branch
PracticeFeedback(w, is_correct) ==
    LET s  == w.self
        q  == s.current_question_details
        keep(e) == ~SameQuestion(e, q.raw_question, q.op_type)
        w1 == [w EXCEPT !.self.practice_questions_answered = @ + 1,
                        !.self.practice_correct_answers = IF is_correct THEN @ + 1 ELSE @,
                        !.self.practice_feedback_label = TRUE]
        w2 == IF s.current_practice_type = "wrong_ones" /\ is_correct
              THEN save_user_data([w1 EXCEPT !.self.persistently_wrong_questions =
                                                 SelectSeq(@, keep)])
              ELSE IF s.current_practice_type = "slow_ones"
              THEN save_user_data([w1 EXCEPT !.self.persistently_slow_questions =
                                                 SelectSeq(@, keep)])
              ELSE w1
        w3 == IF s.answer_mode = "text"
              THEN [w2 EXCEPT !.self.practice_answer_entry = FALSE,
                              !.self.practice_submit_button = FALSE]
              ELSE [w2 EXCEPT !.self.practice_mc_buttons = FALSE]
    IN  [w3 EXCEPT !.self.next_practice_q_button = TRUE]

\* lines 2183-2323
process_answer_result(w, is_correct, time_taken) ==
    IF w.self.current_question_details = NoQuestion \/ w.self.question_start_time = None
    THEN {w}
    ELSE Then(ScoreAnswer([w EXCEPT !.obs.answers = @ + 1,
                                    !.obs.answers_correct = IF is_correct THEN @ + 1 ELSE @],
                          is_correct, time_taken),
              LAMBDA x : IF x.self.game_active
                         THEN next_question(update_xp_and_level(x))
                         ELSE IF x.self.practice_active
                         THEN {PracticeFeedback(x, is_correct)}
                         ELSE {x})

-----------------------------------------------------------------------------
(* The game *)

\* lines 2054-2072
start_game(w) ==
    IF w.self.operations = {} THEN {w}
    ELSE next_question(
            [w EXCEPT !.obs.answers = 0,
                      !.obs.answers_correct = 0,
                      !.self.game_active = TRUE,
                      !.self.questions_answered = 0,
                      !.self.correct_answers = 0,
                      !.self.session_operation_times = [k \in SessionKeys |-> <<>>],
                      !.self.session_operation_correct = [k \in SessionKeys |-> 0],
                      !.self.session_operation_incorrect = [k \in SessionKeys |-> 0],
                      !.self.start_button = FALSE,
                      !.self.stop_button = TRUE])

RECURSIVE SeqSum(_)
SeqSum(seq) == IF seq = <<>> THEN 0 ELSE Head(seq) + SeqSum(Tail(seq))

\* the quotient n / d as <<numerator, denominator>> in lowest terms
Fraction(n, d) == <<n \div Gcd(n, d), d \div Gcd(n, d)>>

\* a record whose total counts the correct answers only
session_data_correct_only(s) ==
    LET touched == {k \in SessionKeys : s.session_operation_times[k] # <<>>}
    IN  [ total |-> s.correct_answers,
          correct |-> s.correct_answers,
          accuracy |-> Fraction(s.correct_answers * 100, s.questions_answered),
          xp_gained_raw |-> s.correct_answers * 10,
          level_at_end |-> s.current_level,
          operations_performance |->
              [op \in touched |->
                  [correct |-> s.session_operation_correct[op],
                   total |-> Len(s.session_operation_times[op]),
                   time_sum |-> SeqSum(s.session_operation_times[op])]] ]

\* lines 2087-2113; accuracy is kept as an exact fraction and avg_time as
\* time_sum / total
session_data(s) ==
    LET touched == {k \in SessionKeys : s.session_operation_times[k] # <<>>}
    IN  [ total |-> s.questions_answered,
          correct |-> s.correct_answers,
          accuracy |-> Fraction(s.correct_answers * 100, s.questions_answered),
          xp_gained_raw |-> s.correct_answers * 10,
          level_at_end |-> s.current_level,
          operations_performance |->
              [op \in touched |->
                  [correct |-> s.session_operation_correct[op],
                   total |-> Len(s.session_operation_times[op]),
                   time_sum |-> SeqSum(s.session_operation_times[op])]] ]

\* a game without answers leaves a record too
stop_game_records_empty_game(w) ==
    LET was_active == w.self.game_active
        w1 == [w EXCEPT !.self.game_active = FALSE,
                        !.self.start_button = TRUE,
                        !.self.stop_button = FALSE]
        w2 == IF was_active
              THEN [w1 EXCEPT !.self.session_history =
                      Append(@, IF w.self.questions_answered > 0 THEN session_data(w.self)
                                ELSE [total |-> 0, correct |-> 0])]
              ELSE w1
    IN  {save_user_data(w2)}

\* lines 2074-2126
stop_game(w) ==
    LET was_active == w.self.game_active
        w1 == [w EXCEPT !.self.game_active = FALSE,
                        !.self.start_button = TRUE,
                        !.self.stop_button = FALSE]
        w2 == IF was_active /\ w.self.questions_answered > 0
              THEN [w1 EXCEPT !.self.session_history = Append(@, session_data(w.self))]
              ELSE w1
    IN  {save_user_data(w2)}

\* lines 2157-2170 and 2172-2180: an answer typed (mc = FALSE) or clicked
GameAnswer(w, by_mc, is_correct, time_taken) ==
    IF by_mc /\ ~w.self.mc_option_value THEN {Raise(w, "AttributeError")}
    ELSE IF w.self.current_question_details = NoQuestion THEN {Raise(w, "TypeError")}
    ELSE process_answer_result(
            IF by_mc THEN [w EXCEPT !.self.mc_buttons = FALSE] ELSE w,
            is_correct, time_taken)

-----------------------------------------------------------------------------
(* Practice *)

PracticeCount == 10     \* line 837: practice_question_count_var

\* lines 887-905
update_practice_answer_mode_ui(w) ==
    LET s  == w.self
        w1 == IF s.answer_mode = "text"
              THEN [w EXCEPT !.self.practice_submit_button = IF s.practice_active THEN TRUE ELSE @]
              ELSE [w EXCEPT !.self.practice_submit_button = FALSE]
    IN  IF s.practice_active /\ s.practice_feedback_label
        THEN [w1 EXCEPT !.self.next_practice_q_button = TRUE,
                        !.self.practice_submit_button =
                            IF s.answer_mode = "text" THEN FALSE ELSE @]
        ELSE [w1 EXCEPT !.self.next_practice_q_button = FALSE,
                        !.self.practice_submit_button =
                            IF s.practice_active /\ s.answer_mode = "text" THEN TRUE ELSE @]

\* lines 2459-2483
end_practice_session(w) ==
    LET w1 == [w EXCEPT !.self.practice_active = FALSE]
    IN  IF w.self.current_practice_type = None
        THEN {Raise(w1, "AttributeError")}                          \* line 2463
        ELSE {save_user_data(
                [w1 EXCEPT !.self.practice_area = FALSE,
                           !.self.options_main_frame_practice = TRUE,
                           !.self.stop_practice_button = FALSE,
                           !.self.current_practice_type = None,
                           !.self.current_practice_list = <<>>,
                           !.self.current_practice_op_for_session = None])}

\* lines 2381-2399: the question rebuilt from an entry of the practice list
ListedQuestion(question_data) ==
    Question(question_data.op_type, question_data.answer,
             question_data.raw_q.a, question_data.raw_q.b, question_data.raw_q)

\* lines 2409-2432
ShowPracticeQuestion(w, q) ==
    LET w1 == [w EXCEPT !.self.current_question_details = q,
                        !.self.practice_feedback_label = FALSE,
                        !.self.question_start_time = "set",
                        !.self.next_practice_q_button = FALSE]
    IN  IF w.self.answer_mode = "text"
        THEN [w1 EXCEPT !.self.practice_answer_entry = TRUE,
                        !.self.practice_submit_button = TRUE]
        ELSE [w1 EXCEPT !.self.practice_mc_buttons = TRUE,
                        !.self.practice_mc_option_value = TRUE]

\* lines 2367-2432
next_practice_question(w) ==
    LET s == w.self
        generated(chosen) ==
            { IF g.q.op_type = "RecursionError" THEN Raise(g.w, "RecursionError")
              ELSE ShowPracticeQuestion([g.w EXCEPT !.obs.generated = TRUE], g.q) :
                g \in Generated(w, chosen) }
    IN  IF ~s.practice_active \/ s.practice_questions_answered >= s.practice_questions_total
        THEN end_practice_session([w EXCEPT !.obs.completed = s.practice_active])
        ELSE IF s.current_practice_type = "targeted_op"
        THEN generated(s.current_practice_op_for_session)
        ELSE IF s.current_practice_type \in {"wrong_ones", "slow_ones"}
        THEN IF s.current_practice_list = <<>> THEN end_practice_session(w)
             ELSE IF s.practice_questions_answered + 1 > Len(s.current_practice_list)
             THEN {Raise(w, "IndexError")}
             ELSE {ShowPracticeQuestion(
                      [w EXCEPT !.obs.presented = s.practice_questions_answered + 1],
                      ListedQuestion(s.current_practice_list[s.practice_questions_answered + 1]))}
        ELSE generated("addition")

\* the first line of the weakness list (lines 997-1010), or addition: one of
\* the enabled operations that have answers
WeakestOps(s) ==
    LET answered == {op \in s.operations :
                       s.operation_stats[op].correct + s.operation_stats[op].incorrect > 0}
    IN  IF answered = {} THEN {"addition"} ELSE answered

\* lines 2338-2363, the definition of start_practice in effect (it replaces
\* the one of lines 918-953); selected is the value of the combobox
start_practice(w, selected) ==
    LET picked == IF selected = "Based on weakness" THEN WeakestOps(w.self) ELSE {selected}
        begin(op) ==
            Then(next_practice_question(
                    [w EXCEPT !.self.current_practice_op = op,
                              !.self.practice_questions_total = PracticeCount,
                              !.self.practice_questions_answered = 0,
                              !.self.practice_correct_answers = 0,
                              !.self.practice_active = TRUE,
                              !.self.options_main_frame_practice = FALSE,
                              !.self.practice_area = TRUE]),
                 LAMBDA x : {update_practice_answer_mode_ui(x)})
    IN  UNION { IF op \notin w.self.operations /\ op \notin DefaultOps
                THEN IF w.self.operations = {}
                     THEN {[w EXCEPT !.self.current_practice_op = op]}
                     ELSE UNION {begin(o) : o \in w.self.operations}
                ELSE begin(op) : op \in picked }

MaxShuffle == 2     \* lists up to this length are shuffled into every order

Reverse(list) == [i \in 1..Len(list) |-> list[Len(list) + 1 - i]]

\* random.shuffle of a practice list: every order of a short list, the given
\* and the reversed order of a long one
ShuffledList(list) ==
    IF Len(list) <= MaxShuffle THEN Shuffles(list) ELSE {list, Reverse(list)}

\* lines 956-990
start_practice_specific_list(w, list_type) ==
    LET queue == IF list_type = "wrong_ones" THEN w.self.persistently_wrong_questions
                 ELSE w.self.persistently_slow_questions
        w1 == [w EXCEPT !.self.current_practice_type = list_type,
                        !.self.current_practice_list = queue]
    IN  IF queue = <<>> THEN {w1}
        ELSE UNION {
               Then(next_practice_question(
                       [w1 EXCEPT !.self.current_practice_list = shuffled,
                                  !.self.practice_questions_total = Len(shuffled),
                                  !.self.practice_questions_answered = 0,
                                  !.self.practice_correct_answers = 0,
                                  !.self.practice_active = TRUE,
                                  !.self.options_main_frame_practice = FALSE,
                                  !.self.practice_area = TRUE,
                                  !.self.stop_practice_button = TRUE]),
                    LAMBDA x : {update_practice_answer_mode_ui(x)}) :
               shuffled \in ShuffledList(queue) }

\* lines 2434-2447 and 2449-2456: an answer typed (mc = FALSE) or clicked
PracticeAnswer(w, by_mc, is_correct, time_taken) ==
    IF by_mc /\ ~w.self.practice_mc_option_value THEN {Raise(w, "AttributeError")}
    ELSE IF w.self.current_question_details = NoQuestion THEN {Raise(w, "TypeError")}
    ELSE process_answer_result(w, is_correct, time_taken)

\* the handler returns at its first line
Ignored(w) == {[w EXCEPT !.obs.ignored = TRUE]}

\* check_practice_answer without the test of line 2435
check_practice_answer_unguarded(w, is_correct, time_taken) ==
    PracticeAnswer(w, FALSE, is_correct, time_taken)

\* lines 2434-2447
check_practice_answer(w, is_correct, time_taken) ==
    IF ~w.self.practice_active \/ w.self.answer_mode # "text" THEN Ignored(w)
    ELSE PracticeAnswer(w, FALSE, is_correct, time_taken)

\* lines 2449-2456
check_practice_mc_answer(w, is_correct, time_taken) ==
    IF ~w.self.practice_active \/ w.self.answer_mode # "mc" THEN Ignored(w)
    ELSE PracticeAnswer(w, TRUE, is_correct, time_taken)

\* lines 2157-2170
check_answer(w, is_correct, time_taken) ==
    IF ~w.self.game_active \/ w.self.answer_mode # "text" THEN Ignored(w)
    ELSE GameAnswer(w, FALSE, is_correct, time_taken)

\* lines 2172-2180
check_mc_answer(w, is_correct, time_taken) ==
    IF ~w.self.game_active \/ w.self.answer_mode # "mc" THEN Ignored(w)
    ELSE GameAnswer(w, TRUE, is_correct, time_taken)

-----------------------------------------------------------------------------
(* Settings *)

\* lines 1812-1830
save_settings(w, enabled, mode) ==
    {update_practice_answer_mode_ui(
        save_user_data([w EXCEPT !.self.operations = enabled,
                                 !.self.answer_mode = mode]))}

-----------------------------------------------------------------------------
(* The data files a process can start from.  Each is the document written by
   an earlier process, obtained here by passing a script of answers through
   the scoring of process_answer_result and then through save_user_data. *)

Addition(a, b) == Question("addition", a + b, a, b, RawQ(a, b, "+"))

ScriptStep(q, is_correct, time_taken) ==
    [q |-> q, is_correct |-> is_correct, time_taken |-> time_taken]

\* the world after one scripted answer
Replayed(w, step) ==
    LET asked  == [w EXCEPT !.self.current_question_details = step.q,
                            !.self.question_start_time = "set"]
        scored == CHOOSE x \in ScoreAnswer(asked, step.is_correct, step.time_taken) : TRUE
    IN  IF scored.self.game_active THEN update_xp_and_level(scored) ELSE scored

\* the world after the steps i, i + 1, ... of the script; an exception ends it
RECURSIVE Replay(_, _, _)
Replay(w, script, i) ==
    IF i > Len(script) THEN w
    ELSE LET next == Replayed(w, script[i])
         IN  IF next.obs.raised # None THEN next ELSE Replay(next, script, i + 1)

RECURSIVE Concat(_)
Concat(seqs) == IF seqs = <<>> THEN <<>> ELSE Head(seqs) \o Concat(Tail(seqs))

\* the i-th of 48 additions of level 1, none of them drawn during a session
FillerQuestion(i) == Addition(2 + ((i - 1) \div 8), 2 + ((i - 1) % 8))

FirstWorld(tier) ==
    [self |-> load_user_data(Constructed, NoFile), file |-> NoFile, obs |-> NoObs]

\* the file of a first start: submit_assessment saves the chosen tier
FreshFile(tier) == UserData(FirstWorld(tier).self, tier)

\* practice only: six quick answers, then 19 slow ones on different questions,
\* the first of them 10 + 1, each followed by a quick one, then 29 wrong ones
\* on different questions, the last of them 1 + 10; the slow queue is one short
\* of its cap, and so is the wrong queue
VeteranScript ==
    [i \in 1..6 |-> ScriptStep(Addition(2, 2), TRUE, 1)]
    \o Concat([i \in 1..(SlowCap - 1) |->
                 <<ScriptStep(IF i = 1 THEN Addition(10, 1) ELSE FillerQuestion(i), TRUE, 10),
                   ScriptStep(Addition(2, 2), TRUE, 1)>>])
    \o [i \in 1..(WrongCap - 2) |-> ScriptStep(FillerQuestion(SlowCap - 1 + i), FALSE, 1)]
    \o <<ScriptStep(Addition(1, 10), FALSE, 1)>>

VeteranFile ==
    UserData(Replay([FirstWorld("good") EXCEPT !.self.practice_active = TRUE],
                    VeteranScript, 1).self, "good")

\* one game: nine quick correct answers, 135 of the 150 XP of level 1, and
\* one wrong answer on 1 + 10, the only entry of the wrong queue
NearLevelUpScript ==
    [i \in 1..9 |-> ScriptStep(Addition(2, 2), TRUE, 1)]
    \o <<ScriptStep(Addition(1, 10), FALSE, 1)>>

NearLevelUpFile ==
    UserData(Replay([FirstWorld("good") EXCEPT !.self.game_active = TRUE],
                    NearLevelUpScript, 1).self, "good")

\* the same, written after Settings were saved with multiple choice answers
MultipleChoiceFile == [NearLevelUpFile EXCEPT !.answer_mode = "mc"]

StoredFiles == {FreshFile("good"), VeteranFile, NearLevelUpFile, MultipleChoiceFile}

-----------------------------------------------------------------------------
(* Specification Spec: a process of the trainer and the user's actions *)

Init ==
    /\ dp = Idle
    /\ gq = Idle
    /\ mc = Idle
    /\ user_data_file \in StoredFiles
    /\ self_assessment_level = user_data_file.self_assessment_level
    /\ self = load_user_data(Constructed, user_data_file)
    /\ obs = NoObs

Called == Begin(self, user_data_file, obs)

Finish(w) ==
    /\ self' = w.self
    /\ user_data_file' = w.file
    /\ obs' = [w.obs EXCEPT !.calls = obs.calls + 1]
    /\ UNCHANGED <<dp, gq, mc, self_assessment_level>>

\* the Start Game button
StartGame ==
    /\ obs.calls < MaxCalls
    /\ self.start_button
    /\ \E w \in start_game(Called) : Finish(w)

\* the Stop Game button
StopGame ==
    /\ obs.calls < MaxCalls
    /\ self.stop_button
    /\ \E w \in stop_game(Called) : Finish(w)

\* lines 2131-2139: update_timer finds the time of the game used up
TimerExpires ==
    /\ obs.calls < MaxCalls
    /\ self.game_active
    /\ \E w \in stop_game(Called) : Finish(w)

\* lines 2157-2170: Return in the answer entry of the game
CheckAnswer ==
    /\ obs.calls < MaxCalls
    /\ \E is_correct \in BOOLEAN, time_taken \in Times :
       \E w \in check_answer(Called, is_correct, time_taken) : Finish(w)

\* lines 2172-2180: one of the four option buttons of the game
CheckMcAnswer ==
    /\ obs.calls < MaxCalls
    /\ self.mc_buttons
    /\ \E is_correct \in BOOLEAN, time_taken \in Times :
       \E w \in check_mc_answer(Called, is_correct, time_taken) : Finish(w)

\* the practice types chosen in the combobox (line 1014): the default and the
\* first two of the enabled operations
PracticeSelections(s) ==
    {"Based on weakness"}
        \cup {op \in s.operations :
                Cardinality({o \in s.operations : \E i, j \in DOMAIN OpOrder :
                                i < j /\ OpOrder[i] = o /\ OpOrder[j] = op}) < 2}

\* the Start Practice button
StartPractice ==
    /\ obs.calls < MaxCalls
    /\ self.options_main_frame_practice
    /\ \E selected \in PracticeSelections(self) :
       \E w \in start_practice(Called, selected) : Finish(w)

\* the Practice Mistakes and Practice Slow Ones buttons
StartPracticeSpecificList ==
    /\ obs.calls < MaxCalls
    /\ self.options_main_frame_practice
    /\ \E list_type \in {"wrong_ones", "slow_ones"} :
       \E w \in start_practice_specific_list(Called, list_type) :
          Finish(w)

\* the Next Question button
NextPracticeQuestion ==
    /\ obs.calls < MaxCalls
    /\ self.practice_area /\ self.next_practice_q_button
    /\ \E w \in next_practice_question(Called) : Finish(w)

\* the Stop Practice button
StopPractice ==
    /\ obs.calls < MaxCalls
    /\ self.practice_area /\ self.stop_practice_button
    /\ \E w \in end_practice_session(Called) : Finish(w)

\* lines 2434-2447: the Submit Answer button, or Return in the practice entry
CheckPracticeAnswer ==
    /\ obs.calls < MaxCalls
    /\ self.practice_submit_button \/ self.practice_answer_entry
    /\ \E is_correct \in BOOLEAN, time_taken \in Times :
       \E w \in check_practice_answer(Called, is_correct, time_taken) :
          Finish(w)

\* lines 2449-2456: one of the four option buttons of the practice area
CheckPracticeMcAnswer ==
    /\ obs.calls < MaxCalls
    /\ self.practice_mc_buttons
    /\ \E is_correct \in BOOLEAN, time_taken \in Times :
       \E w \in check_practice_mc_answer(Called, is_correct, time_taken) :
          Finish(w)

\* the Save Settings button
SaveSettings ==
    /\ obs.calls < MaxCalls
    /\ \E saved \in SettingsSaved :
       \E w \in save_settings(Called, saved[1], saved[2]) : Finish(w)

\* lines 478-522 and 54-214: the window is closed, which saves the data, and
\* the program is started again, which loads them
Restart ==
    /\ obs.calls < MaxCalls
    /\ \E closed \in {save_user_data(Called)} :
       Finish([closed EXCEPT !.self = load_user_data(Constructed, closed.file)])

Next ==
    \/ StartGame \/ StopGame \/ TimerExpires \/ CheckAnswer \/ CheckMcAnswer
    \/ StartPractice \/ StartPracticeSpecificList \/ NextPracticeQuestion
    \/ StopPractice \/ CheckPracticeAnswer \/ CheckPracticeMcAnswer
    \/ SaveSettings \/ Restart

Spec == Init /\ [][Next]_vars

-----------------------------------------------------------------------------
(* Specification SpecPractice: the Practice tab alone, with typed answers
   given one second after the question, long enough for a practice session of
   practice_question_count_var questions to be answered to its end. *)

MaxPracticeCalls == 22  \* handlers run in one behaviour of the Practice tab

PracticeFiles == {FreshFile("good"), NearLevelUpFile}

InitPractice ==
    /\ dp = Idle
    /\ gq = Idle
    /\ mc = Idle
    /\ user_data_file \in PracticeFiles
    /\ self_assessment_level = user_data_file.self_assessment_level
    /\ self = load_user_data(Constructed, user_data_file)
    /\ obs = NoObs

\* the Start Practice button
PressStartPractice ==
    /\ obs.calls < MaxPracticeCalls
    /\ self.options_main_frame_practice
    /\ \E selected \in PracticeSelections(self) :
       \E w \in start_practice(Called, selected) : Finish(w)

\* the Practice Mistakes and Practice Slow Ones buttons
PressPracticeList ==
    /\ obs.calls < MaxPracticeCalls
    /\ self.options_main_frame_practice
    /\ \E list_type \in {"wrong_ones", "slow_ones"} :
       \E w \in start_practice_specific_list(Called, list_type) : Finish(w)

\* lines 2434-2447: the Submit Answer button
SubmitPracticeAnswer ==
    /\ obs.calls < MaxPracticeCalls
    /\ self.practice_active /\ self.answer_mode = "text"
    /\ self.practice_submit_button \/ self.practice_answer_entry
    /\ \E is_correct \in BOOLEAN :
       \E w \in check_practice_answer(Called, is_correct, 1) : Finish(w)

\* the Next Question button
PressNextQuestion ==
    /\ obs.calls < MaxPracticeCalls
    /\ self.practice_area /\ self.next_practice_q_button
    /\ \E w \in next_practice_question(Called) : Finish(w)

\* the Stop Practice button
PressStopPractice ==
    /\ obs.calls < MaxPracticeCalls
    /\ self.practice_area /\ self.stop_practice_button
    /\ \E w \in end_practice_session(Called) : Finish(w)

NextPractice ==
    \/ PressStartPractice \/ PressPracticeList \/ SubmitPracticeAnswer
    \/ PressNextQuestion \/ PressStopPractice

SpecPractice == InitPractice /\ [][NextPractice]_vars

-----------------------------------------------------------------------------
(* Specification SpecAvg: the statistics of lines 2210, 2247 and 2263-2268
   under a sequence of answers.  avg_time is a fraction <<numerator,
   denominator>> in lowest terms, computed by the expression of lines
   2266-2267 in exact arithmetic; obs keeps the latencies that were recorded. *)

MaxSamples == 4     \* answers recorded in one behaviour

Latencies == {2, 4, 6}

AvgOps == {"addition", "division"}

\* ((prev_avg_time * prev_total_answered_for_avg) + time_taken) / 2
running_average_of_two(prev_avg_time, prev_total_answered_for_avg, time_taken) ==
    Fraction(prev_avg_time[1] + time_taken * prev_avg_time[2], prev_avg_time[2] * 2)

\* lines 2265-2267:
\* ((prev_avg_time * prev_total_answered_for_avg) + time_taken) / new_total
running_average(prev_avg_time, prev_total_answered_for_avg, time_taken) ==
    Fraction(prev_avg_time[1] * prev_total_answered_for_avg + time_taken * prev_avg_time[2],
             prev_avg_time[2] * (prev_total_answered_for_avg + 1))

InitAvg ==
    /\ dp = Idle
    /\ gq = Idle
    /\ mc = Idle
    /\ user_data_file = Idle
    /\ self_assessment_level = "good"
    /\ self = [operation_stats |->
                 [op \in AvgOps |-> [correct |-> 0, incorrect |-> 0, avg_time |-> <<0, 1>>,
                                     total_answered_for_avg |-> 0]]]
    /\ obs = [recorded |-> [op \in AvgOps |-> <<>>]]

\* one answer on a question of op_type passes lines 2210 or 2247 and 2263-2268
AvgRecord ==
    /\ Len(obs.recorded["addition"]) + Len(obs.recorded["division"]) < MaxSamples
    /\ \E op_type \in AvgOps, is_correct \in BOOLEAN, time_taken \in Latencies :
          LET stats == self.operation_stats[op_type]
          IN  /\ self' = [self EXCEPT !.operation_stats[op_type] =
                    [correct |-> IF is_correct THEN stats.correct + 1 ELSE stats.correct,
                     incorrect |-> IF is_correct THEN stats.incorrect ELSE stats.incorrect + 1,
                     avg_time |-> running_average(stats.avg_time,
                                                  stats.total_answered_for_avg, time_taken),
                     total_answered_for_avg |-> stats.total_answered_for_avg + 1]]
              /\ obs' = [obs EXCEPT !.recorded[op_type] = Append(@, time_taken)]
    /\ UNCHANGED <<dp, gq, mc, self_assessment_level, user_data_file>>

NextAvg == AvgRecord

SpecAvg == InitAvg /\ [][NextAvg]_vars

-----------------------------------------------------------------------------
(* Specification SpecXp: the level and the XP of lines 128-130 under a
   sequence of awards (lines 2208 and 2273).  self holds current_level,
   current_xp and xp_needed; obs keeps the last award and the state it was
   added to. *)

MaxXpLevel == 12    \* awards are made below this level
MaxAwards == 4      \* awards in one behaviour

\* the XP added at line 2208 for a quick typed answer, the 150 XP of the
\* level-up scenario and an amount that passes two levels at once
Awards(level) == {xp_gained(1, level, "text"), 150, 400}

\* lines 533-535: level, xp and xp_needed as load_user_data reads them from
\* the files save_user_data wrote at the start of a level, and from a file
\* that holds xp_needed = 100 at level 1
XpProfiles ==
    {[current_level |-> level, current_xp |-> 0,
      xp_needed |-> calculate_xp_for_level(level + 1)] : level \in 1..MaxXpLevel}
        \cup {[current_level |-> 1, current_xp |-> 0, xp_needed |-> 100]}

InitXp ==
    /\ dp = Idle
    /\ gq = Idle
    /\ mc = Idle
    /\ user_data_file = Idle
    /\ self_assessment_level = "good"
    /\ self \in XpProfiles
    /\ obs = [awards |-> 0, xp_gained |-> 0, before |-> self]

\* lines 2208 and 2273: xp_gained is added and update_xp_and_level is called
AwardXp ==
    /\ obs.awards < MaxAwards
    /\ self.current_level < MaxXpLevel
    /\ \E awarded \in Awards(self.current_level) :
          /\ self' = update_xp_and_level(
                        [self |-> [self EXCEPT !.current_xp = @ + awarded]]).self
          /\ obs' = [awards |-> obs.awards + 1, xp_gained |-> awarded, before |-> self]
    /\ UNCHANGED <<dp, gq, mc, self_assessment_level, user_data_file>>

NextXp == AwardXp

SpecXp == InitXp /\ [][NextXp]_vars

-----------------------------------------------------------------------------
(* Claims on the retry queues, the XP and the generation of a session *)

InSession == self # Idle

wrong_queue == self.persistently_wrong_questions

slow_queue == self.persistently_slow_questions

\* C1: the wrong queue never holds more than 30 entries and the slow queue
\* never more than 20, and a handler whose insertion was refused because the
\* queue was full leaves that queue as it was
C1_QueuesBounded ==
    /\ [](InSession => Len(wrong_queue) <= WrongCap /\ Len(slow_queue) <= SlowCap)
    /\ [][InSession =>
            /\ "wrong" \in obs'.rejected => wrong_queue' = wrong_queue
            /\ "slow" \in obs'.rejected => slow_queue' = slow_queue]_vars

\* an answer was wrong on a question the full wrong queue does not hold
C1_Witness ==
    /\ InSession
    /\ "wrong" \in obs.rejected
    /\ Len(wrong_queue) = WrongCap

NoTwoShareKey(queue) ==
    \A i, j \in DOMAIN queue :
        i # j => ~SameQuestion(queue[i], queue[j].raw_q, queue[j].op_type)

\* C2: no two entries of the same queue have the same raw_q and the same
\* op_type
C2_NoTwoEntriesShareKey ==
    InSession => NoTwoShareKey(wrong_queue) /\ NoTwoShareKey(slow_queue)

\* the entries of the queue that the step removes, as json writes them
Left(queue, queue_after) ==
    {JsonEntries(queue)[i] : i \in DOMAIN queue}
        \ {JsonEntries(queue_after)[i] : i \in DOMAIN queue_after}

\* the answer of this step was scored as a practice answer over the list
\* list_type, on the question of the entry
PractisedOver(list_type, entry) ==
    /\ self.practice_active /\ ~self.game_active
    /\ self.current_practice_type = list_type
    /\ self.current_question_details # NoQuestion
    /\ AsJson(self.current_question_details.raw_question) = entry.raw_q
    /\ self.current_question_details.op_type = entry.op_type
    /\ self'.practice_questions_answered = self.practice_questions_answered + 1

AnsweredCorrectly == self'.practice_correct_answers = self.practice_correct_answers + 1

C4_XpBelowNeeded ==
    InSession => /\ self.current_xp < self.xp_needed
                 /\ self.current_xp >= 0
                 /\ self.current_level >= 1

\* C7: no handler calls generate_question while no operation is enabled
C7_NoGenerationWithoutOps == InSession => ~obs.no_ops_generation

-----------------------------------------------------------------------------
(* Claims on the slow queue *)

\* the statistics of the operation of the question on screen, before and after
\* the step
StatsBefore == self.operation_stats[self.current_question_details.op_type]

StatsAfter == self'.operation_stats[self.current_question_details.op_type]

\* the step scored an answer on the question on screen
Scored ==
    /\ self.current_question_details # NoQuestion
    /\ self.current_question_details.op_type \in DOMAIN self.operation_stats
    /\ StatsAfter.total_answered_for_avg = StatsBefore.total_answered_for_avg + 1

ScoredCorrect == Scored /\ StatsAfter.correct = StatsBefore.correct + 1

ElapsedTime == StatsAfter.time_sum - StatsBefore.time_sum

\* elapsed > avg * 1.75, or elapsed > avg + 4 while avg > 2, for the average
\* sum / n before the answer; at_least admits the case of equality, which the
\* floats of the program can decide either way
ExceedsAverage(elapsed, sum, n, at_least) ==
    LET gt(x, y) == IF at_least THEN x >= y ELSE x > y
    IN  \/ gt(4 * elapsed * n, 7 * sum)
        \/ gt(elapsed * n, sum + 4 * n) /\ gt(sum, 2 * n)

\* an entry with the raw_q and the op_type of the question is in the queue,
\* whether raw_q is held as a tuple or as a list
Holds(queue, q) ==
    \E i \in DOMAIN queue :
        AsJson(queue[i].raw_q) = AsJson(q.raw_question) /\ queue[i].op_type = q.op_type

\* the same under the comparison of lines 2230-2232
HoldsEqual(queue, q) == InQueue(queue, q.raw_question, q.op_type)

SlowQueueGrows == Len(slow_queue') > Len(slow_queue)

\* the conditions of lines 2221-2233 on a correct answer; present is whether
\* the queue is found to hold the question
MustAddSlow(present) ==
    /\ ScoredCorrect
    /\ StatsBefore.total_answered_for_avg > SlowBaseline
    /\ ExceedsAverage(ElapsedTime, StatsBefore.time_sum,
                      StatsBefore.total_answered_for_avg, FALSE)
    /\ ~present
    /\ Len(slow_queue) < SlowCap

MayAddSlow(present) ==
    /\ ScoredCorrect
    /\ StatsBefore.total_answered_for_avg > SlowBaseline
    /\ ExceedsAverage(ElapsedTime, StatsBefore.time_sum,
                      StatsBefore.total_answered_for_avg, TRUE)
    /\ ~present
    /\ Len(slow_queue) < SlowCap

\* C14: a step adds to the slow queue exactly when it scores a correct answer
\* on an operation with more than 5 samples, slower than 1.75 times the
\* average or than the average plus 4 with an average above 2, on a question
\* the queue does not hold, while the queue has fewer than 20 entries
C14_SlowInsertionRule ==
    [][InSession =>
        /\ SlowQueueGrows => MayAddSlow(Holds(slow_queue, self.current_question_details))
        /\ MustAddSlow(Holds(slow_queue, self.current_question_details)) => SlowQueueGrows]_vars

\* the step runs the removal of lines 2300-2308 after the scoring
InSlowOnesPractice ==
    self.practice_active /\ ~self.game_active /\ self.current_practice_type = "slow_ones"

\* the rule of C14 with the comparison of lines 2230-2232, under which a list
\* read from the file differs from the tuple of a generated question, and
\* outside the practice over the slow queue, whose removal follows the scoring
C14_SlowInsertionRuleAsCompared ==
    [][InSession =>
        /\ SlowQueueGrows => MayAddSlow(HoldsEqual(slow_queue, self.current_question_details))
        /\ (MustAddSlow(HoldsEqual(slow_queue, self.current_question_details))
               /\ ~InSlowOnesPractice) => SlowQueueGrows]_vars

-----------------------------------------------------------------------------
(* Claims on the practice sessions *)

\* a practice session over the wrong queue or the slow queue is in progress
InListSession ==
    self.practice_active /\ self.current_practice_type \in {"wrong_ones", "slow_ones"}

\* C15: in a practice session over a retry list the total is the length of
\* the copied list and the answered count never exceeds it; the question a
\* handler presents is the entry of the copy that follows the answered ones,
\* at an index inside the copy; the copy stays as it was shuffled at the start
\* while the session lasts, whatever is added to the queues; and a session
\* completes with the answered count at the length of the copy
C15_ListSessionOrder ==
    /\ [](InSession =>
            /\ obs.raised # "IndexError"
            /\ InListSession =>
                  /\ self.practice_questions_total = Len(self.current_practice_list)
                  /\ self.practice_questions_answered <= self.practice_questions_total
            /\ (obs.presented # 0 /\ obs.raised = None) =>
                  /\ InListSession
                  /\ obs.presented = self.practice_questions_answered + 1
                  /\ obs.presented <= Len(self.current_practice_list)
                  /\ self.current_question_details
                        = ListedQuestion(self.current_practice_list[obs.presented]))
    /\ [][InSession =>
            /\ (InListSession /\ self'.practice_active)
                  => /\ self'.current_practice_list = self.current_practice_list
                     /\ self'.current_practice_type = self.current_practice_type
            /\ (InListSession /\ obs'.completed)
                  => /\ self.practice_questions_answered = Len(self.current_practice_list)
                     /\ ~self'.practice_active]_vars

\* C16: a question that next_practice_question generates in a practice
\* session started by start_practice has the selected operation as its
\* op_type, when that operation is enabled and is addition, subtraction or
\* multiplication
C16_TargetedOperationKept ==
    (/\ InSession
     /\ obs.generated /\ obs.raised = None
     /\ self.practice_active /\ ~InListSession
     /\ self.current_practice_op \in self.operations
     /\ self.current_practice_op \in {"addition", "subtraction", "multiplication"})
        => self.current_question_details.op_type = self.current_practice_op

-----------------------------------------------------------------------------
(* Claims on the record of a game *)

RecordAppended == Len(self'.session_history) = Len(self.session_history) + 1

LastRecord == self'.session_history[Len(self'.session_history)]

\* C17: the record stop_game appends has total = the number of answers
\* processed since start_game, correct = the number of those that were
\* correct, and accuracy = correct / total * 100
C17_RecordCountsAnswers ==
    [][RecordAppended =>
          /\ LastRecord.total = obs.answers
          /\ LastRecord.correct = obs.answers_correct
          /\ obs.answers > 0
          /\ LastRecord.accuracy = Fraction(obs.answers_correct * 100, obs.answers)]_vars

\* a game of two answers, one of them correct, was stopped: accuracy 50
C17_Witness ==
    /\ InSession
    /\ ~self.game_active
    /\ obs.answers = 2 /\ obs.answers_correct = 1
    /\ Len(self.session_history) > 0
    /\ LET r == self.session_history[Len(self.session_history)]
       IN  r.total = 2 /\ r.correct = 1 /\ r.accuracy = <<50, 1>>

-----------------------------------------------------------------------------
(* Claims on the XP curve and the level-up *)

\* C18: calculate_xp_for_level(1) = 100, the curve rises from each level to
\* the next, and its value is the floor of 100 * 1.5^(level - 1)
C18_XpCurveRises ==
    LET level == self.current_level
        xp    == calculate_xp_for_level(level)
    IN  /\ calculate_xp_for_level(1) = 100
        /\ calculate_xp_for_level(level + 1) > xp
        /\ xp * Pow(2, level - 1) <= 100 * Pow(3, level - 1)
        /\ 100 * Pow(3, level - 1) < (xp + 1) * Pow(2, level - 1)

\* a level-up from level 1 left xp_needed at the value of the curve at 3
C18_Witness ==
    /\ obs.awards > 0
    /\ obs.before.current_level = 1 /\ self.current_level = 2
    /\ self.xp_needed = 225

\* the XP the levels from + 1 .. to take, the first of them costing first
RECURSIVE LevelsCost(_, _, _)
LevelsCost(from, to, first) ==
    IF to <= from THEN 0
    ELSE IF to = from + 1 THEN first
    ELSE calculate_xp_for_level(to) + LevelsCost(from, to - 1, first)

\* C19: update_xp_and_level subtracts xp_needed, adds a level and sets
\* xp_needed to calculate_xp_for_level(current_level + 1) as long as
\* current_xp >= xp_needed; 150 XP on level 1, xp 0, xp_needed 100 give
\* level 2, xp 50 and xp_needed = calculate_xp_for_level(3)
C19_LevelUpLoop ==
    LET entered == [obs.before EXCEPT !.current_xp = @ + obs.xp_gained]
        gained  == self.current_level - entered.current_level
    IN  obs.awards > 0 =>
          /\ gained >= 0
          /\ self.current_xp >= 0 /\ self.current_xp < self.xp_needed
          /\ entered.current_xp >= entered.xp_needed => gained >= 1
          /\ gained = 0 => self = entered
          /\ gained >= 1 =>
                /\ self.xp_needed = calculate_xp_for_level(self.current_level + 1)
                /\ entered.current_xp = self.current_xp
                      + LevelsCost(entered.current_level, self.current_level,
                                   entered.xp_needed)
          /\ (entered = [current_level |-> 1, current_xp |-> 150, xp_needed |-> 100])
                => self = [current_level |-> 2, current_xp |-> 50,
                           xp_needed |-> calculate_xp_for_level(3)]

\* the scenario: 150 XP awarded to level 1, xp 0, xp_needed 100
C19_Witness ==
    /\ obs.awards = 1 /\ obs.xp_gained = 150
    /\ obs.before = [current_level |-> 1, current_xp |-> 0, xp_needed |-> 100]
    /\ self.current_level = 2 /\ self.current_xp = 50

\* an award that passes two levels in one call
C19_WitnessTwoLevels ==
    /\ obs.awards > 0
    /\ self.current_level = obs.before.current_level + 2

-----------------------------------------------------------------------------
(* Claims on save_user_data and load_user_data *)

\* the queue holds the question on screen, whatever the form of raw_q
HoldsQuestionOnScreen(queue) ==
    /\ self.current_question_details # NoQuestion
    /\ \E i \in DOMAIN queue :
          /\ AsJson(queue[i].raw_q) = AsJson(self.current_question_details.raw_question)
          /\ queue[i].op_type = self.current_question_details.op_type

\* C20: the entries of the retry queues that load_user_data reads back still
\* match their questions: a question that is in the wrong queue, saved and
\* loaded or not, is not inserted a second time by an incorrect answer
C20_ReloadedEntryNotInsertedAgain ==
    [][(InSession /\ HoldsQuestionOnScreen(wrong_queue))
          => Len(self'.persistently_wrong_questions) <= Len(wrong_queue)]_vars

\* stop_game runs on a running game; it leaves the question on screen, where
\* a new process has none
GameStops ==
    /\ InSession
    /\ self.game_active /\ ~self'.game_active
    /\ self'.current_question_details = self.current_question_details

C25_WitnessNoAnswer ==
    /\ InSession
    /\ ~self.game_active /\ self.start_button
    /\ self.current_question_details # NoQuestion
    /\ obs.answers = 0 /\ obs.calls = 2
    /\ self.session_history = <<>>

-----------------------------------------------------------------------------
(* Claims on the answers of a practice session *)

\* the step processes an answer while a practice session runs and no game does
PracticeOnlyAnswer ==
    /\ InSession
    /\ self.practice_active /\ ~self.game_active
    /\ obs'.answers = obs.answers + 1

\* 1 when the answer of the step was correct, else 0
CorrectInStep == obs'.answers_correct - obs.answers_correct

\* C21: an answer processed while practice is active and no game is active
\* leaves current_xp, current_level and xp_needed as they were, and counts in
\* the session counters and in the statistics of its operation
C21_NoXpInPractice ==
    [][PracticeOnlyAnswer =>
          /\ self'.current_xp = self.current_xp
          /\ self'.current_level = self.current_level
          /\ self'.xp_needed = self.xp_needed
          /\ self'.questions_answered = self.questions_answered + 1
          /\ self'.correct_answers = self.correct_answers + CorrectInStep
          /\ obs'.raised = None =>
                LET op_type == self.current_question_details.op_type
                    before  == self.operation_stats[op_type]
                    after   == self'.operation_stats[op_type]
                IN  /\ after.correct = before.correct + CorrectInStep
                    /\ after.incorrect = before.incorrect + (1 - CorrectInStep)
                    /\ after.total_answered_for_avg = before.total_answered_for_avg + 1
                    /\ Len(self'.session_operation_times[op_type])
                          = Len(self.session_operation_times[op_type]) + 1]_vars

\* one correct answer was given in a practice session, no game running
C21_Witness ==
    /\ InSession
    /\ self.practice_active /\ ~self.game_active
    /\ obs.answers = 1 /\ obs.answers_correct = 1
    /\ self.practice_questions_answered = 1 /\ self.practice_correct_answers = 1
    /\ self.correct_answers = 1
    /\ self.current_xp = user_data_file.xp

\* the step ends a practice session
PracticeEnds == InSession /\ self.practice_active /\ ~self'.practice_active

\* C22: end_practice_session raises nothing, however the session was started
\* and however it is reached, and leaves practice_active false,
\* current_practice_type None and current_practice_list empty, with the
\* buttons that start a session on screen
C22_PracticeEndsCleanly ==
    [][PracticeEnds =>
          /\ obs'.raised = None
          /\ self'.current_practice_type = None
          /\ self'.current_practice_list = <<>>
          /\ self'.options_main_frame_practice]_vars

-----------------------------------------------------------------------------
(* Claims on the tiers of get_difficulty_params *)

\* the tiers from the slowest ramp to the fastest
TierRank(tier) ==
    CASE tier = "bad"     -> 1
      [] tier = "good"    -> 2
      [] tier = "nice"    -> 3
      [] tier = "perfect" -> 4

\* every bound of p is at least the same bound of q
AtLeast(p, q) ==
    /\ p.range[1] >= q.range[1] /\ p.range[2] >= q.range[2]
    /\ p.mult_range[1] >= q.mult_range[1] /\ p.mult_range[2] >= q.mult_range[2]
    /\ p.digits >= q.digits

\* C23: beyond the last bracket the bounds and the digit count returned for a
\* tier are at least those returned for every tier of slower ramp, the digit
\* count is at most 6, and up to the last bracket the result is the same for
\* every tier
C23_TiersOrdered ==
    dp.pc = "done" =>
        /\ dp.params.digits <= 6
        /\ dp.level > LastBracket.max_lvl =>
              \A tier \in Tiers :
                 TierRank(tier) < TierRank(self_assessment_level) =>
                    \A q \in get_difficulty_params(dp.level, tier) : AtLeast(dp.params, q)
        /\ dp.level <= LastBracket.max_lvl =>
              \A tier \in Tiers : get_difficulty_params(dp.level, tier) = {dp.params}

\* a level at which nice is strictly above good and the digit count is capped
C23_Witness ==
    /\ dp.pc = "done"
    /\ dp.level = MaxLevel
    /\ self_assessment_level = "nice"
    /\ dp.params.digits = 6
    /\ \E q \in get_difficulty_params(dp.level, "good") : dp.params.range[2] > q.range[2]

-----------------------------------------------------------------------------
(* Claims on operation_stats *)

\* the step processes an answer
AnswerProcessed == InSession /\ obs'.answers = obs.answers + 1

\* the statistics of op count one more answer, correct or incorrect
CountsOneMore(op) ==
    LET before == self.operation_stats[op]
        after  == self'.operation_stats[op]
    IN  /\ after.total_answered_for_avg = before.total_answered_for_avg + 1
        /\ \/ after.correct = before.correct + 1 /\ after.incorrect = before.incorrect
           \/ after.correct = before.correct /\ after.incorrect = before.incorrect + 1

StatsBalanced ==
    \A op \in DOMAIN self.operation_stats :
        self.operation_stats[op].correct + self.operation_stats[op].incorrect
            = self.operation_stats[op].total_answered_for_avg

\* C26: correct + incorrect = total_answered_for_avg for every operation in
\* every state, and every processed answer counts one more answer, correct
\* or incorrect, for one operation and changes the statistics of no other
C26_EveryAnswerCounted ==
    /\ [](InSession => StatsBalanced)
    /\ [][AnswerProcessed =>
             \E op \in DOMAIN self.operation_stats :
                /\ CountsOneMore(op)
                /\ \A other \in DOMAIN self.operation_stats \ {op} :
                      self'.operation_stats[other] = self.operation_stats[other]]_vars

\* the same, for the answers on a question of one of the seven operations
C26_AnswersOnOperationsCounted ==
    /\ [](InSession => StatsBalanced)
    /\ [][InSession =>
             IF AnswerProcessed /\ self.current_question_details.op_type \in Ops
             THEN /\ CountsOneMore(self.current_question_details.op_type)
                  /\ \A other \in Ops \ {self.current_question_details.op_type} :
                        self'.operation_stats[other] = self.operation_stats[other]
             ELSE self'.operation_stats = self.operation_stats]_vars

-----------------------------------------------------------------------------
(* Claims on the game and the practice session together *)

\* C27: game_active and practice_active are never both true, and an answer
\* submitted in the practice area is never scored as a game answer
C27_GameAndPracticeExclusive ==
    InSession => ~(self.game_active /\ self.practice_active)

\* C28: process_answer_result never runs on the sentinel question: the
\* op_type of every answer processed is one of the seven operations, and
\* nothing is recorded in the session under "error"
C28_SentinelNeverScored ==
    /\ [][AnswerProcessed => self.current_question_details.op_type \in Ops]_vars
    /\ [](InSession =>
            /\ self.session_operation_times["error"] = <<>>
            /\ self.session_operation_correct["error"] = 0
            /\ self.session_operation_incorrect["error"] = 0)

-----------------------------------------------------------------------------
(* Claims on the answer handlers outside a session *)

\* the step leaves the trainer and its file as they were and scores nothing
NothingChanged ==
    /\ self' = self
    /\ user_data_file' = user_data_file
    /\ obs'.answers = obs.answers /\ obs'.answers_correct = obs.answers_correct
    /\ obs'.raised = None /\ ~obs'.generated

\* C30: while no game runs check_answer and check_mc_answer change nothing,
\* and while no practice session runs check_practice_answer and
\* check_practice_mc_answer change nothing
C30_AnswersIgnoredWhenInactive ==
    [][/\ (~self.game_active /\ (CheckAnswer \/ CheckMcAnswer)) => NothingChanged
       /\ (~self.practice_active /\ (CheckPracticeAnswer \/ CheckPracticeMcAnswer))
             => NothingChanged]_vars

\* an answer handler returned at its first line after a game with one answer
\* was stopped
C30_Witness ==
    /\ InSession
    /\ obs.ignored
    /\ ~self.game_active /\ ~self.practice_active
    /\ self.questions_answered = 1
    /\ Len(self.session_history) = 1
    /\ self.current_question_details # NoQuestion

-----------------------------------------------------------------------------
(* Claims on the running average *)

\* C13: for each operation, avg_time times total_answered_for_avg is the sum
\* of the latencies recorded for it, and total_answered_for_avg is the number
\* of answers recorded for it, correct or not
C13_AverageIsMean ==
    \A op \in AvgOps :
        LET stats == self.operation_stats[op]
        IN  /\ stats.avg_time[1] * stats.total_answered_for_avg
                  = SeqSum(obs.recorded[op]) * stats.avg_time[2]
            /\ stats.total_answered_for_avg = Len(obs.recorded[op])
            /\ stats.total_answered_for_avg = stats.correct + stats.incorrect

\* the latencies 2, 4, 6, the second of them on an incorrect answer: average 4
\* and count 3
C13_Witness ==
    /\ obs.recorded["addition"] = <<2, 4, 6>>
    /\ self.operation_stats["addition"].incorrect = 1
    /\ self.operation_stats["addition"].avg_time = <<4, 1>>
    /\ self.operation_stats["addition"].total_answered_for_avg = 3

-----------------------------------------------------------------------------
(* Claims on generate_question *)

\* the unlock floors tested at lines 1930, 1944 and 1955
UnlockLevel(op) ==
    CASE op = "powers" -> 10 [] op = "roots" -> 15 [] op = "percentages" -> 8 [] OTHER -> 1

\* C5: generate_question terminates and returns a question for every level
\* >= 1 and every non-empty set of enabled operations, in particular when
\* every enabled operation is below its unlock floor (only "roots", only
\* "powers" or only "percentages" at a low level): the chain of fallback
\* calls ends with a returned question, not with an exhausted stack.
C5_AlwaysReturns ==
    (/\ gq.pc # "call"
     /\ gq.level >= 1
     /\ gq.operations # {}
     /\ \A op \in gq.operations : gq.level < UnlockLevel(op))
        => gq.pc = "returned"

\* C6: with no operation enabled, generate_question returns the sentinel
\* (op_type "error", answer 0) from its first activation, whatever the level
\* and the requested operation, and never raises.
C6_SentinelWhenNoOps ==
    (gq.pc \in {"returned", "raised"} /\ gq.operations = {}) =>
        /\ gq.pc = "returned"
        /\ gq.depth = 0
        /\ gq.q = ErrorQuestion
        /\ gq.q.op_type = "error" /\ gq.q.answer = 0

\* the sentinel returned although a locked operation was requested
C6_Witness ==
    /\ gq.pc = "returned"
    /\ gq.operations = {}
    /\ gq.requested = "roots"
    /\ gq.level = 1
    /\ gq.q.op_type = "error"

\* C8: a returned powers question implies level >= 10, a roots question
\* level >= 15 and a percentages question level >= 8.
C8_NoOutOfLevelQuestion ==
    gq.pc = "returned" =>
        /\ gq.q.op_type = "powers" => gq.level >= 10
        /\ gq.q.op_type = "roots" => gq.level >= 15
        /\ gq.q.op_type = "percentages" => gq.level >= 8

\* roots requested just below its floor falls back to another operation, and
\* at the floor a roots question is returned
C8_Witness ==
    /\ gq.pc = "returned"
    /\ gq.requested = "roots"
    /\ "roots" \in gq.operations
    /\ \/ gq.level = 14 /\ gq.depth > 0 /\ gq.q.op_type \in {"addition", "subtraction"}
       \/ gq.level = 15 /\ gq.q.op_type = "roots"

\* C12: a returned addition, subtraction or multiplication question has
\* num1 OP num2 = answer for the operator of its op_type and raw_question =
\* (num1, num2, symbol), and a subtraction question has num2 <= num1 and an
\* answer that is not negative
C12_BasicQuestionsExact ==
    gq.pc = "returned" =>
        LET q == gq.q
        IN  /\ q.op_type = "addition" =>
                  q.answer = q.num1 + q.num2 /\ q.raw_question = RawQ(q.num1, q.num2, "+")
            /\ q.op_type = "subtraction" =>
                  /\ q.answer = q.num1 - q.num2 /\ q.raw_question = RawQ(q.num1, q.num2, "-")
                  /\ q.num2 <= q.num1 /\ q.answer >= 0
            /\ q.op_type = "multiplication" =>
                  q.answer = q.num1 * q.num2 /\ q.raw_question = RawQ(q.num1, q.num2, "*")

\* a subtraction question of level 10, where line 1897 no longer swaps, with
\* the largest num2 the draw of line 1896 allows
C12_Witness ==
    /\ gq.pc = "returned"
    /\ gq.level = 10
    /\ gq.q.op_type = "subtraction"
    /\ gq.q.num1 > 1 /\ gq.q.num2 = gq.q.num1 /\ gq.q.answer = 0

\* the conditions of a division question at the level of the call
DivisionWellFormed(q, level, tier) ==
    /\ q.num2 >= 1
    /\ q.num1 = q.num2 * q.answer
    /\ q.num1 % q.num2 = 0 /\ q.num1 \div q.num2 = q.answer
    /\ \E p \in get_difficulty_params(level, tier) :
          p.range[1] <= q.num1 /\ q.num1 <= p.range[2]

\* C11, first part: a returned division question has a divisor >= 1, a
\* dividend equal to divisor times answer, and a dividend in the value range
\* of the level
C11_DivisionQuestionsWellFormed ==
    (gq.pc = "returned" /\ gq.q.op_type = "division")
        => DivisionWellFormed(gq.q, gq.level, self_assessment_level)

\* C11: every returned division question is well formed, and a call in which
\* the 100 attempts found no triple does not return a division question
C11_DivisionExactOrAbandoned ==
    gq.pc = "returned" =>
        /\ gq.q.op_type = "division"
              => DivisionWellFormed(gq.q, gq.level, self_assessment_level)
        /\ gq.division_abandoned => gq.q.op_type # "division"

\* C29: with an operation enabled, the op_type of the question returned is
\* an enabled operation, whatever the level and the operation asked for, and
\* after any chain of fallbacks
C29_ReturnedOperationEnabled ==
    (gq.pc = "returned" /\ gq.operations # {}) => gq.q.op_type \in gq.operations

\* a fallback asked for an operation that is not enabled and the question
\* returned is of an enabled one
C29_Witness ==
    /\ gq.pc = "returned"
    /\ gq.depth >= 1
    /\ gq.chosen # None /\ gq.chosen \notin gq.operations
    /\ gq.requested # None /\ gq.requested \notin gq.operations
    /\ gq.q.op_type \in gq.operations

\* the entry line 2256 stores for the question q
StoredEntry(q) ==
    InsertWrong([self |-> [current_question_details |-> q,
                           persistently_wrong_questions |-> <<>>],
                 obs |-> NoObs]).self.persistently_wrong_questions[1]

\* the question rebuilt from the entry has the radicand, the degree and the
\* answer of q
RebuiltAsAsked(entry, q) ==
    LET rebuilt == ListedQuestion(entry)
    IN  /\ rebuilt.op_type = q.op_type
        /\ rebuilt.answer = q.answer
        /\ rebuilt.raw_question.a = q.raw_question.a
        /\ rebuilt.raw_question.b = q.raw_question.b
        /\ rebuilt.raw_question.sym = q.raw_question.sym
        /\ rebuilt.num1 = q.raw_question.a /\ rebuilt.num2 = q.raw_question.b

\* C24: a roots question has raw_question = (radicand, degree, root symbol)
\* with degree 2 or 3 and answer^degree = radicand, and the question a list
\* practice rebuilds from the stored tuple, before or after it went through
\* the file, has the same radicand, degree and answer
C24_RootsStoredByRadicand ==
    (gq.pc = "returned" /\ gq.q.op_type = "roots") =>
        LET q == gq.q
        IN  /\ q.raw_question.sym = "root"
            /\ q.raw_question.b \in {2, 3}
            /\ Pow(q.answer, q.raw_question.b) = q.raw_question.a
            /\ RebuiltAsAsked(StoredEntry(q), q)
            /\ RebuiltAsAsked(JsonEntries(<<StoredEntry(q)>>)[1], q)

\* the cube root of 8 was asked
C24_Witness ==
    /\ gq.pc = "returned"
    /\ gq.q.op_type = "roots"
    /\ gq.q.raw_question.a = 8 /\ gq.q.raw_question.b = 3 /\ gq.q.answer = 2

-----------------------------------------------------------------------------
(* Claims on generate_mc_options *)

\* C9: for a non-negative integer correct_answer, generate_mc_options returns
\* exactly 4 values, pairwise distinct, among which correct_answer occurs
\* exactly once, whichever random choices are made.
C9_FourDistinctOptions ==
    mc.pc = "done" =>
        /\ Len(mc.result) = 4
        /\ \A i, j \in 1..Len(mc.result) : mc.result[i] = mc.result[j] => i = j
        /\ Cardinality({i \in 1..Len(mc.result) : mc.result[i] = Tenths(mc.correct_answer)}) = 1

\* both loops used up their 20 passes without reaching four options, and the
\* fill loop completed the list
C9_Witness ==
    /\ mc.pc = "done"
    /\ mc.correct_answer = 0
    /\ Cardinality(mc.options) = 1
    /\ Len(mc.result) = 4

-----------------------------------------------------------------------------
(* Claims on get_difficulty_params *)

\* C10: for every level in 1..MaxLevel and each of the four tiers the value
\* range returned by get_difficulty_params has low < high and low >= 1, and a
\* multiplier range, when present, has low < high.
C10_RangesValid ==
    dp.pc = "done" =>
        /\ dp.params.range[1] < dp.params.range[2]
        /\ dp.params.range[1] >= 1
        /\ dp.params.mult_range # NoMult =>
               dp.params.mult_range[1] < dp.params.mult_range[2]

\* a level beyond the table, scaled on the fastest ramp, with a multiplier range
C10_Witness ==
    /\ dp.pc = "done"
    /\ dp.level = MaxLevel
    /\ self_assessment_level = "perfect"
    /\ dp.params.mult_range # NoMult
    /\ dp.params.range[1] > LastBracket.p.range[1]

=============================================================================
